---------------------------- MODULE Spec2Model ----------------------------
(***************************************************************************)
(* A model of the TalentConnect backend:                                   *)
(*   - processSkills (controllers/dashboardController.js and               *)
(*     controllers/registerController.js), the skill normaliser;          *)
(*   - matchSkills, areRelatedSkills, searchJobSeekers and                 *)
(*     getProfessionalCategories (controllers/userSearchController.js);    *)
(*   - the stored skills column written by updateUserProfile and read by   *)
(*     safeJsonParse (controllers/dashboardController.js);                 *)
(*   - registerUser and updateUserProfile as transactions on the one       *)
(*     shared connection, and forgotPassword / resetPassword.              *)
(*                                                                         *)
(* JavaScript strings are sequences of one-character strings, so that      *)
(* trim, split, includes, toLowerCase, JSON.parse and JSON.stringify are   *)
(* computed character by character.  JavaScript values are tagged records  *)
(* (see Str, Num, Arr, ...).                                               *)
(***************************************************************************)
EXTENDS Integers, Sequences, FiniteSets, TLC

VARIABLES
  nRaw,     \* processSkills: the raw value handed to the normaliser
  npc,      \* processSkills: "input" | "once" | "twice"
  nOut,     \* processSkills: completion of processSkills(nRaw)
  nOut2,    \* processSkills: completion of processSkills(value of nOut)
  mSkills,  \* matchSkills: req.body.skills
  mRows,    \* matchSkills: the job_seekers rows of the database
  mpc,      \* matchSkills: "idle" | "querying" | "done" | "crashed"
  mRes,     \* matchSkills: the response sent (status, body), or NoResponse
  tRows,    \* the users/job_seekers rows read by search, categories, server
  sReq,     \* searchJobSeekers: req.body
  spc,      \* searchJobSeekers: "idle" | "querying" | "done" | "crashed"
  sRes,     \* searchJobSeekers: the response sent, or NoResponse
  cpc,      \* getProfessionalCategories: "idle" | "querying" | "done"
  cRes,     \* getProfessionalCategories: the response sent, or NoResponse
  pReqs,    \* server: the requests in flight, each with its pc and response
  pAlive,   \* server: the Node process is running
  rel,      \* areRelatedSkills: the two skills and the results of both calls
  store,    \* stored skills: the value saved, read back and saved again
  dbase,    \* accounts: the tables, the open transaction, the statement queue
  calls     \* accounts: the requests in flight, each with its pc and response

normVars    == <<nRaw, npc, nOut, nOut2>>
matchVars   == <<mSkills, mRows, mpc, mRes>>
profileVars == <<tRows, sReq, spc, sRes, cpc, cRes, pReqs, pAlive, rel>>
accountVars == <<store, dbase, calls>>
vars        == <<nRaw, npc, nOut, nOut2, mSkills, mRows, mpc, mRes,
                 tRows, sReq, spc, sRes, cpc, cRes, pReqs, pAlive, rel,
                 store, dbase, calls>>

\* search, categories and server are not part of the run
ProfilesOff ==
  /\ tRows = <<>>
  /\ sReq = [off |-> TRUE]
  /\ spc = "off"
  /\ sRes = [status |-> 0]
  /\ cpc = "off"
  /\ cRes = [status |-> 0]
  /\ pReqs = <<>>
  /\ pAlive = TRUE
  /\ rel = [pc |-> "off"]

\* the stored-skills run and the account requests are not part of the run
AccountsOff ==
  /\ store = [pc |-> "off"]
  /\ dbase = [off |-> TRUE]
  /\ calls = <<>>

---------------------------------------------------------------------------
(* Small arithmetic and sequence helpers.                                  *)

SetMin(S) == CHOOSE x \in S : \A y \in S : x <= y
SetMax(S) == 0 - SetMin({0 - x : x \in S})

\* Array.prototype.slice(0, n)
slice0(seq, n) == SubSeq(seq, 1, IF Len(seq) < n THEN Len(seq) ELSE n)

\* the sequence f written out element by element
AsTuple(f) == f \o <<>>

\* n copies of x
Repeat(x, n) == [i \in 1..n |-> x]

---------------------------------------------------------------------------
(* JavaScript strings.                                                     *)

UpperCase == <<"A","B","C","D","E","F","G","H","I","J","K","L","M",
               "N","O","P","Q","R","S","T","U","V","W","X","Y","Z">>
LowerCase == <<"a","b","c","d","e","f","g","h","i","j","k","l","m",
               "n","o","p","q","r","s","t","u","v","w","x","y","z">>
Digits    == <<"0","1","2","3","4","5","6","7","8","9">>

\* The white space String.prototype.trim strips (the ASCII part of it).
WhiteSpace == {" ", "\t", "\n", "\r"}

\* the lower-case letter of every upper-case letter
LowerOf == [c \in {UpperCase[i] : i \in 1..Len(UpperCase)} |->
              LowerCase[CHOOSE i \in 1..Len(UpperCase) : UpperCase[i] = c]]

ToLowerChar(c) == IF c \in DOMAIN LowerOf THEN LowerOf[c] ELSE c

\* String.prototype.toLowerCase
toLowerCase(s) == AsTuple([i \in 1..Len(s) |-> ToLowerChar(s[i])])

\* String.prototype.trim
trim(s) ==
  LET keep == {i \in 1..Len(s) : s[i] \notin WhiteSpace}
  IN  IF keep = {} THEN <<>> ELSE SubSeq(s, SetMin(keep), SetMax(keep))

\* String.prototype.includes
includes(s, sub) ==
  \E i \in 0..(Len(s) - Len(sub)) : SubSeq(s, i + 1, i + Len(sub)) = sub

startsWith(s, c) == Len(s) >= 1 /\ s[1] = c
endsWith(s, c)   == Len(s) >= 1 /\ s[Len(s)] = c

\* String.prototype.split on a one-character separator set: the segments
\* between separators, empty segments included ("".split(",") is [""]).
split(s, seps) ==
  LET hits    == {i \in 1..Len(s) : s[i] \in seps}
      \* a segment starts after position 0 and after each separator
      starts  == SelectSeq([k \in 1..(Len(s) + 1) |-> k - 1], LAMBDA b : b = 0 \/ b \in hits)
      stop(b) == SetMin({h \in hits : h > b} \cup {Len(s) + 1})
  IN  [k \in 1..Len(starts) |-> SubSeq(s, starts[k] + 1, stop(starts[k]) - 1)]

\* the concatenation of a sequence of sequences
RECURSIVE Concat(_)
Concat(seqs) ==
  IF Len(seqs) = 0 THEN <<>>
  ELSE IF Len(seqs) = 1 THEN seqs[1]
  ELSE LET h == Len(seqs) \div 2
       IN  Concat(SubSeq(seqs, 1, h)) \o Concat(SubSeq(seqs, h + 1, Len(seqs)))

\* Array.prototype.join on a sequence of strings
join(strs, sep) ==
  IF Len(strs) = 0 THEN <<>>
  ELSE Concat([i \in 1..(2 * Len(strs) - 1) |->
                 IF i % 2 = 1 THEN strs[(i + 1) \div 2] ELSE sep])

---------------------------------------------------------------------------
(* JavaScript values.                                                      *)

Undefined == [t |-> "undefined"]
Null      == [t |-> "null"]
Str(s)    == [t |-> "string", s |-> s]
Num(n)    == [t |-> "number", n |-> n]
Bool(b)   == [t |-> "boolean", b |-> b]
Arr(a)    == [t |-> "array", a |-> a]

\* Array.isArray
IsArray(v)  == v.t = "array"
\* typeof v === 'string'
IsString(v) == v.t = "string"

\* ToBoolean: what `!v` and `v && ...` test
Truthy(v) ==
  CASE v.t = "undefined" -> FALSE
    [] v.t = "null"      -> FALSE
    [] v.t = "string"    -> v.s # <<>>
    [] v.t = "number"    -> v.n # 0
    [] v.t = "boolean"   -> v.b
    [] OTHER             -> TRUE

\* Number to decimal text (integers)
RECURSIVE NatToString(_)
NatToString(n) ==
  IF n < 10 THEN <<Digits[n + 1]>>
  ELSE NatToString(n \div 10) \o <<Digits[(n % 10) + 1]>>

IntToString(n) == IF n < 0 THEN <<"-">> \o NatToString(-n) ELSE NatToString(n)

\* String(v): ToString of a value.  An array is its elements joined by ",",
\* null and undefined elements giving the empty string.
RECURSIVE ToStringJS(_)
ToStringJS(v) ==
  CASE v.t = "undefined" -> <<"u","n","d","e","f","i","n","e","d">>
    [] v.t = "null"      -> <<"n","u","l","l">>
    [] v.t = "string"    -> v.s
    [] v.t = "number"    -> IntToString(v.n)
    [] v.t = "boolean"   -> IF v.b THEN <<"t","r","u","e">> ELSE <<"f","a","l","s","e">>
    [] v.t = "array"     ->
         join([i \in 1..Len(v.a) |->
                 IF v.a[i].t \in {"undefined", "null"} THEN <<>> ELSE ToStringJS(v.a[i])],
              <<",">>)

\* Completion of a JavaScript call: a returned value or a thrown error.
Return(v) == [type |-> "return", value |-> v]
Throw(e)  == [type |-> "throw", error |-> e]

---------------------------------------------------------------------------
(* JSON.parse and JSON.stringify, for the JSON the program handles: arrays *)
(* (nested too), strings with the escapes \" \\ \/ \n \t \r, integers      *)
(* without fraction or exponent, and the literals true, false, null.       *)
(* Texts with objects, fractions, exponents or \u escapes are not among    *)
(* the inputs of this model.                                               *)

\* The white space JSON allows between tokens
JsonWs == {" ", "\t", "\n", "\r"}

ParseFail == [ok |-> FALSE]
ParseOk(v, next) == [ok |-> TRUE, v |-> v, next |-> next]

\* the first position >= i that holds no JSON white space
RECURSIVE SkipWs(_, _)
SkipWs(s, i) == IF i <= Len(s) /\ s[i] \in JsonWs THEN SkipWs(s, i + 1) ELSE i

IsDigit(c) == \E d \in 1..Len(Digits) : Digits[d] = c
DigitValue(c) == (CHOOSE d \in 1..Len(Digits) : Digits[d] = c) - 1

\* the character an escape \c stands for, or "" when \c is no escape
Unescape(c) ==
  CASE c = "\"" -> "\""
    [] c = "\\" -> "\\"
    [] c = "/"  -> "/"
    [] c = "n"  -> "\n"
    [] c = "t"  -> "\t"
    [] c = "r"  -> "\r"
    [] OTHER    -> ""

\* the position of the quote that closes a string, scanning from s[j] and
\* stepping over each backslash and the character it escapes; 0 if none
RECURSIVE ClosingQuote(_, _)
ClosingQuote(s, j) ==
  IF j > Len(s) THEN 0
  ELSE IF s[j] = "\"" THEN j
  ELSE IF s[j] = "\\" THEN ClosingQuote(s, j + 2)
  ELSE ClosingQuote(s, j + 1)

\* the string whose opening quote is at s[i - 1].  A character is escaped
\* when an odd number of backslashes stands right before it (counted from
\* i on); the string ends at the first quote that is not escaped.
ParseString(s, i) ==
  LET \* the backslashes that stand right before s[j]
      run(j)     == j - 1 - SetMax({k \in (i - 1)..(j - 1) : k = i - 1 \/ s[k] # "\\"})
      escaped(j) == run(j) % 2 = 1
      close      == ClosingQuote(s, i)
  IN  IF close = 0 THEN ParseFail
      ELSE LET inner == i..(close - 1)
               bad   == {j \in inner :
                           \/ escaped(j) /\ Unescape(s[j]) = ""
                           \/ ~escaped(j) /\ s[j] \in {"\n", "\t", "\r"}}
               \* the positions that stand for a character of the value
               pos == SelectSeq([k \in 1..(close - i) |-> i + k - 1],
                                LAMBDA j : escaped(j) \/ s[j] # "\\")
           IN  IF bad # {} THEN ParseFail
               ELSE ParseOk(Str([k \in 1..Len(pos) |->
                                   IF escaped(pos[k]) THEN Unescape(s[pos[k]]) ELSE s[pos[k]]]),
                            close + 1)

\* the digits of s from i on; acc is their value so far
RECURSIVE ParseDigits(_, _, _)
ParseDigits(s, i, acc) ==
  IF i <= Len(s) /\ IsDigit(s[i])
  THEN ParseDigits(s, i + 1, 10 * acc + DigitValue(s[i]))
  ELSE ParseOk(Num(acc), i)

\* a number at s[i]: "0", or a digit 1..9 and more digits, after an optional "-"
ParseNumber(s, i) ==
  LET neg == s[i] = "-"
      j   == IF neg THEN i + 1 ELSE i
  IN  IF j > Len(s) \/ ~IsDigit(s[j]) THEN ParseFail
      ELSE LET r == IF s[j] = "0" THEN ParseOk(Num(0), j + 1) ELSE ParseDigits(s, j, 0)
           IN  IF neg THEN ParseOk(Num(0 - r.v.n), r.next) ELSE r

IsLiteralAt(s, i, word) ==
  i + Len(word) - 1 <= Len(s) /\ SubSeq(s, i, i + Len(word) - 1) = word

RECURSIVE ParseValue(_, _), ParseElements(_, _, _)
\* the value that starts at s[i]
ParseValue(s, i) ==
  IF i > Len(s) THEN ParseFail
  ELSE IF s[i] = "[" THEN
         LET j == SkipWs(s, i + 1)
         IN  IF j <= Len(s) /\ s[j] = "]" THEN ParseOk(Arr(<<>>), j + 1)
             ELSE ParseElements(s, j, <<>>)
  ELSE IF s[i] = "\"" THEN ParseString(s, i + 1)
  ELSE IF s[i] = "-" \/ IsDigit(s[i]) THEN ParseNumber(s, i)
  ELSE IF IsLiteralAt(s, i, <<"t","r","u","e">>) THEN ParseOk(Bool(TRUE), i + 4)
  ELSE IF IsLiteralAt(s, i, <<"f","a","l","s","e">>) THEN ParseOk(Bool(FALSE), i + 5)
  ELSE IF IsLiteralAt(s, i, <<"n","u","l","l">>) THEN ParseOk(Null, i + 4)
  ELSE ParseFail

\* the elements of an array from s[i] on, up to its "]"; acc holds those read
ParseElements(s, i, acc) ==
  LET r == ParseValue(s, i)
  IN  IF ~r.ok THEN ParseFail
      ELSE LET j == SkipWs(s, r.next)
           IN  IF j > Len(s) THEN ParseFail
               ELSE IF s[j] = "]" THEN ParseOk(Arr(Append(acc, r.v)), j + 1)
               ELSE IF s[j] = "," THEN ParseElements(s, SkipWs(s, j + 1), Append(acc, r.v))
               ELSE ParseFail

\* JSON.parse(text): Return(value), or Throw("SyntaxError")
JSONparse(text) ==
  LET r == ParseValue(text, SkipWs(text, 1))
  IN  IF r.ok /\ SkipWs(text, r.next) = Len(text) + 1
      THEN Return(r.v)
      ELSE Throw("SyntaxError")

\* a string's characters as JSON.stringify writes them between the quotes
EscapeChar(c) ==
  CASE c = "\"" -> <<"\\", "\"">>
    [] c = "\\" -> <<"\\", "\\">>
    [] c = "\n" -> <<"\\", "n">>
    [] c = "\t" -> <<"\\", "t">>
    [] c = "\r" -> <<"\\", "r">>
    [] OTHER    -> <<c>>

EscapeChars(s) == Concat([i \in 1..Len(s) |-> EscapeChar(s[i])])

\* JSON.stringify(v); undefined inside an array is written null
RECURSIVE JSONstringify(_)
JSONstringify(v) ==
  CASE v.t = "string"    -> <<"\"">> \o EscapeChars(v.s) \o <<"\"">>
    [] v.t = "number"    -> IntToString(v.n)
    [] v.t = "boolean"   -> IF v.b THEN <<"t","r","u","e">> ELSE <<"f","a","l","s","e">>
    [] v.t = "array"     ->
         <<"[">> \o join([i \in 1..Len(v.a) |-> JSONstringify(v.a[i])], <<",">>) \o <<"]">>
    [] OTHER             -> <<"n","u","l","l">>

---------------------------------------------------------------------------
(* processSkills: dashboardController.js 19-66, and the same text in       *)
(* registerController.js 113-160.                                          *)

SkillCap    == 20
MaxSkillLen == 50

\* trimmed.split(',').map(s => s.trim()).filter(s => s.length > 0)
CommaSplit(trimmed) ==
  LET parts   == split(trimmed, {","})
      trimmedParts == [i \in 1..Len(parts) |-> Str(trim(parts[i]))]
  IN  SelectSeq(trimmedParts, LAMBDA p : Len(p.s) > 0)

\* CleanSkills without the .slice(0, 20)
CleanSkillsNoCap(skillsArray) ==
  LET mapped == [i \in 1..Len(skillsArray) |-> Str(trim(ToStringJS(skillsArray[i])))]
  IN  SelectSeq(mapped, LAMBDA p : Len(p.s) > 0 /\ Len(p.s) <= MaxSkillLen)

\* CleanSkills that checks the lengths before it trims
CleanSkillsTrimLast(skillsArray) ==
  LET mapped == [i \in 1..Len(skillsArray) |-> Str(ToStringJS(skillsArray[i]))]
      kept   == SelectSeq(mapped, LAMBDA p : Len(p.s) > 0 /\ Len(p.s) <= MaxSkillLen)
  IN  slice0([i \in 1..Len(kept) |-> Str(trim(kept[i].s))], SkillCap)

\* CleanSkills that also lowercases every entry
CleanSkillsLower(skillsArray) ==
  LET mapped == [i \in 1..Len(skillsArray) |->
                   Str(toLowerCase(trim(ToStringJS(skillsArray[i]))))]
      kept   == SelectSeq(mapped, LAMBDA p : Len(p.s) > 0 /\ Len(p.s) <= MaxSkillLen)
  IN  slice0(kept, SkillCap)

\* the "Clean and validate" step: String(skill).trim() on every entry, drop
\* the entries of length 0 or above 50, keep the first 20
CleanSkills(skillsArray) ==
  LET mapped == [i \in 1..Len(skillsArray) |-> Str(trim(ToStringJS(skillsArray[i])))]
      kept   == SelectSeq(mapped, LAMBDA p : Len(p.s) > 0 /\ Len(p.s) <= MaxSkillLen)
  IN  slice0(kept, SkillCap)

\* ParseBracketed without the try/catch: the SyntaxError propagates
ParseBracketedNoCatch(trimmed) ==
  LET parsed == JSONparse(trimmed)
  IN  IF parsed.type = "throw" THEN parsed
      ELSE IF IsArray(parsed.value) THEN Return(parsed.value.a)
      ELSE Return(<<>>)

\* the try { JSON.parse } catch { comma-split } of a bracketed string
ParseBracketed(trimmed) ==
  LET parsed == JSONparse(trimmed)
  IN  IF parsed.type = "throw" THEN Return(CommaSplit(trimmed))
      ELSE IF IsArray(parsed.value) THEN Return(parsed.value.a)
      ELSE Return(<<>>)

\* processSkills(skills): the completion of the call
processSkills(skills) ==
  IF ~Truthy(skills) THEN Return(Arr(<<>>))
  ELSE IF IsArray(skills) THEN Return(Arr(CleanSkills(skills.a)))
  ELSE IF IsString(skills) THEN
         LET trimmed == trim(skills.s)
         IN  IF trimmed = <<>> \/ trimmed = <<"[", "]">> THEN Return(Arr(<<>>))
             ELSE IF startsWith(trimmed, "[") /\ endsWith(trimmed, "]") THEN
                    LET got == ParseBracketed(trimmed)
                    IN  IF got.type = "throw" THEN got
                        ELSE Return(Arr(CleanSkills(got.value)))
             ELSE Return(Arr(CleanSkills(CommaSplit(trimmed))))
  ELSE Return(Arr(CleanSkills(<<>>)))

---------------------------------------------------------------------------
(* areRelatedSkills: userSearchController.js 687-726.                      *)

\* the object literal relatedSkillsMap, one record per own property
relatedSkillsMap ==
  << [key |-> <<"r","e","a","c","t">>,
      related |-> << <<"j","a","v","a","s","c","r","i","p","t">>,
                     <<"j","s">>,
                     <<"j","s","x">>,
                     <<"f","r","o","n","t","e","n","d">>,
                     <<"w","e","b"," ","d","e","v","e","l","o","p","m","e","n","t">>,
                     <<"n","e","x","t">>,
                     <<"n","e","x","t","j","s">> >>],
     [key |-> <<"v","u","e">>,
      related |-> << <<"j","a","v","a","s","c","r","i","p","t">>,
                     <<"j","s">>,
                     <<"f","r","o","n","t","e","n","d">>,
                     <<"w","e","b"," ","d","e","v","e","l","o","p","m","e","n","t">>,
                     <<"n","u","x","t">> >>],
     [key |-> <<"a","n","g","u","l","a","r">>,
      related |-> << <<"t","y","p","e","s","c","r","i","p","t">>,
                     <<"j","a","v","a","s","c","r","i","p","t">>,
                     <<"j","s">>,
                     <<"f","r","o","n","t","e","n","d">>,
                     <<"w","e","b"," ","d","e","v","e","l","o","p","m","e","n","t">> >>],
     [key |-> <<"n","o","d","e">>,
      related |-> << <<"j","a","v","a","s","c","r","i","p","t">>,
                     <<"j","s">>,
                     <<"b","a","c","k","e","n","d">>,
                     <<"s","e","r","v","e","r">>,
                     <<"e","x","p","r","e","s","s">> >>],
     [key |-> <<"n","o","d","e","j","s">>,
      related |-> << <<"j","a","v","a","s","c","r","i","p","t">>,
                     <<"j","s">>,
                     <<"b","a","c","k","e","n","d">>,
                     <<"s","e","r","v","e","r">>,
                     <<"e","x","p","r","e","s","s">> >>],
     [key |-> <<"p","y","t","h","o","n">>,
      related |-> << <<"d","j","a","n","g","o">>,
                     <<"f","l","a","s","k">>,
                     <<"f","a","s","t","a","p","i">>,
                     <<"b","a","c","k","e","n","d">>,
                     <<"d","a","t","a"," ","s","c","i","e","n","c","e">>,
                     <<"m","a","c","h","i","n","e"," ","l","e","a","r","n","i","n","g">>,
                     <<"a","i">> >>],
     [key |-> <<"j","a","v","a">>,
      related |-> << <<"s","p","r","i","n","g">>,
                     <<"b","a","c","k","e","n","d">>,
                     <<"e","n","t","e","r","p","r","i","s","e">>,
                     <<"s","p","r","i","n","g","b","o","o","t">> >>],
     [key |-> <<"t","y","p","e","s","c","r","i","p","t">>,
      related |-> << <<"j","a","v","a","s","c","r","i","p","t">>,
                     <<"j","s">>,
                     <<"r","e","a","c","t">>,
                     <<"a","n","g","u","l","a","r">>,
                     <<"n","o","d","e">> >>],
     [key |-> <<"c","s","s">>,
      related |-> << <<"h","t","m","l">>,
                     <<"f","r","o","n","t","e","n","d">>,
                     <<"w","e","b"," ","d","e","v","e","l","o","p","m","e","n","t">>,
                     <<"s","a","s","s">>,
                     <<"s","c","s","s">>,
                     <<"t","a","i","l","w","i","n","d">> >>],
     [key |-> <<"h","t","m","l">>,
      related |-> << <<"c","s","s">>,
                     <<"f","r","o","n","t","e","n","d">>,
                     <<"w","e","b"," ","d","e","v","e","l","o","p","m","e","n","t">> >>],
     [key |-> <<"s","q","l">>,
      related |-> << <<"d","a","t","a","b","a","s","e">>,
                     <<"m","y","s","q","l">>,
                     <<"p","o","s","t","g","r","e","s","q","l">>,
                     <<"m","o","n","g","o","d","b">> >>],
     [key |-> <<"a","w","s">>,
      related |-> << <<"c","l","o","u","d">>,
                     <<"d","e","v","o","p","s">>,
                     <<"i","n","f","r","a","s","t","r","u","c","t","u","r","e">>,
                     <<"e","c","2">>,
                     <<"s","3">> >>],
     [key |-> <<"d","o","c","k","e","r">>,
      related |-> << <<"d","e","v","o","p","s">>,
                     <<"c","o","n","t","a","i","n","e","r","i","z","a","t","i","o","n">>,
                     <<"k","u","b","e","r","n","e","t","e","s">> >>],
     [key |-> <<"g","i","t">>,
      related |-> << <<"v","e","r","s","i","o","n"," ","c","o","n","t","r","o","l">>,
                     <<"g","i","t","h","u","b">>,
                     <<"g","i","t","l","a","b">> >>],
     [key |-> <<"m","o","n","g","o","d","b">>,
      related |-> << <<"d","a","t","a","b","a","s","e">>,
                     <<"n","o","s","q","l">>,
                     <<"m","o","n","g","o","o","s","e">> >>],
     [key |-> <<"m","y","s","q","l">>,
      related |-> << <<"d","a","t","a","b","a","s","e">>,
                     <<"s","q","l">>,
                     <<"r","e","l","a","t","i","o","n","a","l">> >>],
     [key |-> <<"p","o","s","t","g","r","e","s","q","l">>,
      related |-> << <<"d","a","t","a","b","a","s","e">>,
                     <<"s","q","l">>,
                     <<"r","e","l","a","t","i","o","n","a","l">> >>],
     [key |-> <<"r","e","d","i","s">>,
      related |-> << <<"c","a","c","h","e">>,
                     <<"d","a","t","a","b","a","s","e">>,
                     <<"m","e","m","o","r","y">> >>],
     [key |-> <<"g","r","a","p","h","q","l">>,
      related |-> << <<"a","p","i">>,
                     <<"q","u","e","r","y"," ","l","a","n","g","u","a","g","e">>,
                     <<"a","p","o","l","l","o">> >>],
     [key |-> <<"r","e","s","t">>,
      related |-> << <<"a","p","i">>,
                     <<"w","e","b"," ","s","e","r","v","i","c","e">>,
                     <<"h","t","t","p">> >>],
     [key |-> <<"s","a","s","s">>,
      related |-> << <<"c","s","s">>,
                     <<"s","c","s","s">>,
                     <<"s","t","y","l","i","n","g">> >>],
     [key |-> <<"s","c","s","s">>,
      related |-> << <<"c","s","s">>,
                     <<"s","a","s","s">>,
                     <<"s","t","y","l","i","n","g">> >>],
     [key |-> <<"t","a","i","l","w","i","n","d">>,
      related |-> << <<"c","s","s">>,
                     <<"u","t","i","l","i","t","y">>,
                     <<"s","t","y","l","i","n","g">> >>],
     [key |-> <<"b","o","o","t","s","t","r","a","p">>,
      related |-> << <<"c","s","s">>,
                     <<"f","r","a","m","e","w","o","r","k">>,
                     <<"r","e","s","p","o","n","s","i","v","e">> >>] >>

\* The lowercase names every JavaScript object inherits from
\* Object.prototype: relatedSkillsMap[name] is then a function or an object
\* without an includes method.
InheritedKeys == { <<"c","o","n","s","t","r","u","c","t","o","r">>,
                   <<"_","_","p","r","o","t","o","_","_">> }

\* relatedSkillsMap[key] && relatedSkillsMap[key].includes(other)
MapIncludes(key, other) ==
  LET own == {k \in 1..Len(relatedSkillsMap) : relatedSkillsMap[k].key = key}
  IN  IF own # {} THEN
        LET list == relatedSkillsMap[CHOOSE k \in own : TRUE].related
        IN  Return(\E i \in 1..Len(list) : list[i] = other)
      ELSE IF key \in InheritedKeys THEN Throw("TypeError")
      ELSE Return(FALSE)

\* lines 687-726
areRelatedSkills(skill1, skill2) ==
  LET skill1Lower == toLowerCase(skill1)
      skill2Lower == toLowerCase(skill2)
      first       == MapIncludes(skill1Lower, skill2Lower)
  IN  IF first.type = "throw" THEN first
      ELSE IF first.value THEN Return(TRUE)
      ELSE MapIncludes(skill2Lower, skill1Lower)

---------------------------------------------------------------------------
(* matchSkills: userSearchController.js 185-359.                           *)

MatchLimit == 25

\* ParseInputSkills without the .filter(skill => skill.length > 0)
ParseInputSkillsNoFilter(skills) ==
  LET parts == split(toLowerCase(skills), {",", ";", "|", "\n"})
  IN  AsTuple([i \in 1..Len(parts) |-> trim(parts[i])])

\* lines 198-201: the query terms
ParseInputSkills(skills) ==
  LET parts   == split(toLowerCase(skills), {",", ";", "|", "\n"})
      trimmed == [i \in 1..Len(parts) |-> trim(parts[i])]
  IN  SelectSeq(trimmed, LAMBDA term : Len(term) > 0)

\* lines 248-267: the candidate's stored skills as an array
ParseCandidateSkills(stored) ==
  IF ~Truthy(stored) THEN <<>>
  ELSE IF IsString(stored) THEN
         LET parsed == JSONparse(stored.s)
         IN  IF parsed.type = "throw" THEN <<>>
             ELSE IF IsArray(parsed.value) THEN parsed.value.a
             ELSE <<>>
  ELSE IF IsArray(stored) THEN stored.a
  ELSE <<>>

\* line 268: filter(skill => skill && skill.trim().length > 0).  A truthy
\* entry that is no string has no trim method: a TypeError.
FilterCandidateSkills(candidateSkills) ==
  IF \E i \in 1..Len(candidateSkills) :
       Truthy(candidateSkills[i]) /\ ~IsString(candidateSkills[i])
  THEN Throw("TypeError")
  ELSE Return(SelectSeq(candidateSkills, LAMBDA skill : Truthy(skill) /\ Len(trim(skill.s)) > 0))

\* the tests of lines 279-285 with the partial test ahead of the equality
ClassifyPartialFirst(inputSkill, candidateSkill) ==
  IF includes(candidateSkill, inputSkill) \/ includes(inputSkill, candidateSkill)
  THEN "partial"
  ELSE IF candidateSkill = inputSkill THEN "exact"
  ELSE LET related == areRelatedSkills(inputSkill, candidateSkill)
       IN  IF related.type = "throw" THEN "throw"
           ELSE IF related.value THEN "related"
           ELSE "none"

\* lines 279-285: the bucket of one (query term, candidate skill) pair
Classify(inputSkill, candidateSkill) ==
  IF candidateSkill = inputSkill THEN "exact"
  ELSE IF includes(candidateSkill, inputSkill) \/ includes(inputSkill, candidateSkill)
       THEN "partial"
  ELSE LET related == areRelatedSkills(inputSkill, candidateSkill)
       IN  IF related.type = "throw" THEN "throw"
           ELSE IF related.value THEN "related"
           ELSE "none"

\* Math.floor in the place of Math.round
MatchScoreFloor(totalScore, maxPossibleScore) ==
  IF maxPossibleScore > 0 THEN (100 * totalScore) \div maxPossibleScore ELSE 0

\* a score held at 100
MatchScoreCapped(totalScore, maxPossibleScore) ==
  IF maxPossibleScore > 0
  THEN SetMin({100, (200 * totalScore + maxPossibleScore) \div (2 * maxPossibleScore)})
  ELSE 0

\* lines 296-298: Math.round((totalScore / maxPossibleScore) * 100), or 0.
\* Math.round rounds a half up.
MatchScore(totalScore, maxPossibleScore) ==
  IF maxPossibleScore > 0
  THEN (200 * totalScore + maxPossibleScore) \div (2 * maxPossibleScore)
  ELSE 0

\* the list as it is, duplicates kept
DedupeNot(list) == list

\* [...new Set(list)]: the first occurrence of every element, in order
Dedupe(list) ==
  LET first == SelectSeq([i \in 1..Len(list) |-> i],
                         LAMBDA i : \A j \in 1..(i - 1) : list[j] # list[i])
  IN  AsTuple([k \in 1..Len(first) |-> list[first[k]]])

\* lines 277-287: the bucket of every (query term, candidate skill) pair, in
\* the order of the two nested forEach loops; pair k is query term
\* ((k - 1) \div n) + 1 with candidate skill ((k - 1) % n) + 1
PairBuckets(inputSkills, candidateSkillsLower) ==
  AsTuple([k \in 1..(Len(inputSkills) * Len(candidateSkillsLower)) |->
             Classify(inputSkills[((k - 1) \div Len(candidateSkillsLower)) + 1],
                      candidateSkillsLower[((k - 1) % Len(candidateSkillsLower)) + 1])])

\* the candidate skills pushed to one bucket's list, in loop order
Pushed(buckets, bucket, candidateSkills) ==
  LET at == SelectSeq([k \in 1..Len(buckets) |-> k], LAMBDA k : buckets[k] = bucket)
  IN  AsTuple([k \in 1..Len(at) |-> candidateSkills[((at[k] - 1) % Len(candidateSkills)) + 1].s])

\* lines 289-331: the scores and the record returned for the candidate
MatchRecord(candidate, candidateSkills, terms, exactMatches, partialMatches, relatedMatches) ==
  [ id             |-> candidate.id,
    availability   |-> candidate.availability,
    createdAt      |-> candidate.createdAt,
    skills         |-> AsTuple([i \in 1..Len(candidateSkills) |-> candidateSkills[i].s]),
    matchScore     |-> MatchScore(Len(exactMatches) * 3 + Len(partialMatches) * 2
                                    + Len(relatedMatches) * 1,
                                  terms * 3),
    matchingSkills |-> Dedupe(exactMatches \o partialMatches \o relatedMatches),
    matchDetails   |-> [ exact   |-> Len(exactMatches),
                         partial |-> Len(partialMatches),
                         related |-> Len(relatedMatches),
                         total   |-> Len(Dedupe(exactMatches \o partialMatches \o relatedMatches)) ] ]

\* lines 270-331: the matching of the filtered candidate skills
ScoreCandidate(inputSkills, candidate, candidateSkills, buckets) ==
  IF \E k \in 1..Len(buckets) : buckets[k] = "throw" THEN Throw("TypeError")
  ELSE Return(MatchRecord(candidate, candidateSkills, Len(inputSkills),
                          Pushed(buckets, "exact", candidateSkills),
                          Pushed(buckets, "partial", candidateSkills),
                          Pushed(buckets, "related", candidateSkills)))

\* line 270: candidateSkills.map(skill => skill.toLowerCase().trim())
LowerSkills(candidateSkills) ==
  AsTuple([i \in 1..Len(candidateSkills) |-> trim(toLowerCase(candidateSkills[i].s))])

\* lines 247-331: the map callback for one row: the completion of the
\* callback, a match record or the TypeError it throws
MatchCandidate(inputSkills, candidate) ==
  LET filtered == FilterCandidateSkills(ParseCandidateSkills(candidate.skills))
  IN  IF filtered.type = "throw" THEN filtered
      ELSE ScoreCandidate(inputSkills, candidate, filtered.value,
                          PairBuckets(inputSkills, LowerSkills(filtered.value)))

\* a filter that keeps the candidates of score 0 too
KeepMatchesAll(scored) == scored

\* the filter of line 332 testing the skill list instead of the score
KeepMatchesWithSkills(scored) ==
  SelectSeq(scored, LAMBDA candidate : candidate.skills # <<>>)

\* line 332: .filter(candidate => candidate.matchScore > 0)
KeepMatches(scored) == SelectSeq(scored, LAMBDA candidate : candidate.matchScore > 0)

\* a comparator without the availability step
SortsBeforeScoreDate(a, b) ==
  \/ a.matchScore > b.matchScore
  \/ a.matchScore = b.matchScore /\ a.createdAt > b.createdAt

\* lines 333-339: the comparator says a goes before b
SortsBefore(a, b) ==
  \/ a.matchScore > b.matchScore
  \/ /\ a.matchScore = b.matchScore
     /\ a.availability = "available" /\ b.availability # "available"
  \/ /\ a.matchScore = b.matchScore
     /\ (a.availability = "available") = (b.availability = "available")
     /\ a.createdAt > b.createdAt

\* Array.prototype.sort with that comparator: a stable sort, so an element
\* goes after those the comparator puts before it and after the earlier
\* ones it ties with
SortMatches(list) ==
  LET rank == AsTuple([i \in 1..Len(list) |->
                Cardinality({j \in 1..Len(list) :
                    \/ SortsBefore(list[j], list[i])
                    \/ ~SortsBefore(list[i], list[j]) /\ j < i})])
  IN  AsTuple([r \in 1..Len(list) |-> list[CHOOSE i \in 1..Len(list) : rank[i] = r - 1]])

\* the rows the SELECT of lines 205-232 returns: job seekers whose skills
\* column is not NULL and is none of the texts '[]', 'null', '', latest first
\* (rows of the same createdAt in table order)
SelectCandidates(rows) ==
  LET kept == SelectSeq(rows, LAMBDA row :
                /\ row.skills.t # "null"
                /\ ~(IsString(row.skills) /\
                     row.skills.s \in {<<"[","]">>, <<"n","u","l","l">>, <<>>}))
      rank == AsTuple([i \in 1..Len(kept) |->
                Cardinality({j \in 1..Len(kept) :
                    \/ kept[j].createdAt > kept[i].createdAt
                    \/ kept[j].createdAt = kept[i].createdAt /\ j < i})])
  IN  AsTuple([r \in 1..Len(kept) |-> kept[CHOOSE i \in 1..Len(kept) : rank[i] = r - 1]])

\* lines 247-340: the callback's work on the rows: the matches it would
\* send, or the TypeError that escapes it
ComputeMatches(inputSkills, allCandidates) ==
  LET mapped == AsTuple([i \in 1..Len(allCandidates) |->
                           MatchCandidate(inputSkills, allCandidates[i])])
  IN  IF \E i \in 1..Len(mapped) : mapped[i].type = "throw" THEN Throw("TypeError")
      ELSE Return(slice0(SortMatches(KeepMatches(AsTuple([i \in 1..Len(mapped) |-> mapped[i].value]))),
                         MatchLimit))

---------------------------------------------------------------------------
(* The raw skill inputs of the normaliser specification.  A raw input is   *)
(* built from a base array (entries drawn freely from SkillEntries),       *)
(* padded with copies of one valid entry up to and beyond the cap of 20,   *)
(* and handed over in one of the forms a request can carry it in.          *)

MaxFree      == 2   \* free entries of a base array
ExtraEntries == 1   \* entries beyond SkillCap a padded array may hold

LongSkill    == Repeat("a", MaxSkillLen)        \* 50 characters: kept
TooLongSkill == Repeat("a", MaxSkillLen + 1)    \* 51 characters: dropped

SkillEntries ==
  << Str(<<"R","e","a","c","t">>),
     Str(<<" "," ","N","o","d","e"," ","J","S","\t">>),
     Str(<<" "," ">>),
     Str(LongSkill),
     Str(TooLongSkill),
     Str(<<"a","\"","b",",","C","\\">>),
     Num(42) >>

PadEntry == Str(<<"s","q","l">>)

\* index tuples of the base arrays
BaseIndexes == UNION {[1..n -> 1..Len(SkillEntries)] : n \in 0..MaxFree}

\* how many pad entries follow the base array
PadCounts == {0} \cup ((SkillCap - 1)..(SkillCap + ExtraEntries))

RawForms == {"array", "json", "json-spaced", "delimited", "bracketed"}

BaseArray(idx, pad) ==
  [i \in 1..Len(idx) |-> SkillEntries[idx[i]]] \o Repeat(PadEntry, pad)

\* the entries as a user types them: their texts joined by commas
Delimited(entries) ==
  join([i \in 1..Len(entries) |-> ToStringJS(entries[i])], <<",", " ">>)

RawInput(idx, pad, form) ==
  LET entries == BaseArray(idx, pad)
  IN  CASE form = "array"       -> Arr(entries)
        [] form = "json"        -> Str(JSONstringify(Arr(entries)))
        [] form = "json-spaced" -> Str(<<" ", "\n">> \o JSONstringify(Arr(entries)) \o <<" ">>)
        [] form = "delimited"   -> Str(Delimited(entries))
        [] form = "bracketed"   -> Str(<<"[">> \o Delimited(entries) \o <<"]">>)

\* further inputs: values that are no list, and hand-written lists
OtherInputs ==
  << Undefined, Null, Num(0), Num(7), Bool(TRUE), Bool(FALSE), Str(<<>>), Str(<<" ", "\t">>),
     Arr(<<Null, Str(<<>>), Undefined, Bool(TRUE), Arr(<<Num(1), Null, Str(<<"x">>)>>)>>),
     Str(<<"[","n","u","l","l",","," ","t","r","u","e",",","[","1",",","2","]","]">>),
     Str(<<"[","1","]","]">>), Str(<<"n","u","l","l">>), Str(<<"4","2">>),
     Str(<<"[","]">>), Str(<<" ","[","]","\n">>), Str(<<"[","\"","a","\"",",","]">>),
     Str(<<"[","\"","a","]">>), Str(<<"\"","a","\"">>), Str(<<",",",">>),
     Str(<<"R","e","a","c","t",";","N","o","d","e">>), Str(<<"a","|","b","\n","c">>),
     Str(<<" ","c","s","s"," ",","," ","h","t","m","l",";","s","q","l",",",",","a","w","s"," ">>) >>

NoCompletion == [type |-> "none"]

NormInit ==
  /\ AccountsOff
  /\ npc = "input"
  /\ \/ \E idx \in BaseIndexes, pad \in PadCounts, form \in RawForms :
          nRaw = RawInput(idx, pad, form)
     \/ \E k \in 1..Len(OtherInputs) : nRaw = OtherInputs[k]
  /\ nOut = NoCompletion
  /\ nOut2 = NoCompletion
  /\ mSkills = Undefined
  /\ mRows = <<>>
  /\ mpc = "off"
  /\ mRes = [status |-> 0]
  /\ ProfilesOff

\* a request hands its skills field to processSkills
Normalize ==
  /\ npc = "input"
  /\ nOut' = processSkills(nRaw)
  /\ npc' = "once"
  /\ UNCHANGED <<nRaw, nOut2, mSkills, mRows, mpc, mRes, profileVars, accountVars>>

\* the normalised list is handed to processSkills again
Renormalize ==
  /\ npc = "once"
  /\ nOut.type = "return"
  /\ nOut2' = processSkills(nOut.value)
  /\ npc' = "twice"
  /\ UNCHANGED <<nRaw, nOut, mSkills, mRows, mpc, mRes, profileVars, accountVars>>

NormNext == Normalize \/ Renormalize

SpecNorm == NormInit /\ [][NormNext]_vars

---------------------------------------------------------------------------
(* Stored skills: a profile is saved (registerController.js 269-295,       *)
(* dashboardController.js 456-479), read back (dashboardController.js 167) *)
(* and saved again with the skills as they were stored.                    *)

MaxStoreFree == 1   \* free entries of the base array of a saved list

StoreIndexes == UNION {[1..n -> 1..Len(SkillEntries)] : n \in 0..MaxStoreFree}

\* safeJsonParse through its typeof test only: whatever is no string is
\* answered with the fallback
safeJsonParseStringOnly(jsonString) ==
  IF ~Truthy(jsonString) THEN Arr(<<>>)
  ELSE IF ~IsString(jsonString) THEN Arr(<<>>)
  ELSE LET parsed == JSONparse(jsonString.s)
       IN  IF parsed.type = "throw" THEN Arr(<<>>)
           ELSE IF IsArray(parsed.value) THEN parsed.value
           ELSE Arr(<<>>)

\* dashboardController.js 5-16, with the default fallback []
safeJsonParse(jsonString) ==
  IF ~Truthy(jsonString) THEN Arr(<<>>)
  ELSE IF ~IsString(jsonString) THEN jsonString
  ELSE LET parsed == JSONparse(jsonString.s)
       IN  IF parsed.type = "throw" THEN Arr(<<>>)
           ELSE IF IsArray(parsed.value) THEN parsed.value
           ELSE Arr(<<>>)

\* the skills column as the driver hands it over on a read: the JSON text
\* that was written, or the value of that text already parsed
ColumnValues(stored) ==
  {Str(stored)} \cup
  (IF JSONparse(stored).type = "return" THEN {JSONparse(stored).value} ELSE {})

StoreInit ==
  /\ \/ \E idx \in StoreIndexes, pad \in PadCounts, form \in RawForms :
          store = [pc |-> "input", raw |-> RawInput(idx, pad, form)]
     \/ \E k \in 1..Len(OtherInputs) : store = [pc |-> "input", raw |-> OtherInputs[k]]
  /\ dbase = [off |-> TRUE]
  /\ calls = <<>>
  /\ npc = "off"
  /\ nRaw = Undefined
  /\ nOut = NoCompletion
  /\ nOut2 = NoCompletion
  /\ mSkills = Undefined
  /\ mRows = <<>>
  /\ mpc = "off"
  /\ mRes = [status |-> 0]
  /\ ProfilesOff

\* the value written to the skills column: JSON.stringify(parsedSkills)
StoredSkillsText(parsedSkills) == JSONstringify(parsedSkills.value)

\* registerController.js 270 and 285, dashboardController.js 457 and 473:
\* the skills of the request are normalised and written as JSON text
SaveSkills ==
  /\ store.pc = "input"
  /\ \E parsedSkills \in {processSkills(store.raw)} :
       /\ parsedSkills.type = "return"
       /\ store' = [pc |-> "saved", raw |-> store.raw, skills |-> parsedSkills.value,
                    stored |-> StoredSkillsText(parsedSkills)]
  /\ UNCHANGED <<dbase, calls, normVars, matchVars, profileVars>>

\* dashboardController.js 167: safeJsonParse(jobSeekers[0].skills, [])
ReadSkills ==
  /\ store.pc = "saved"
  /\ \E column \in ColumnValues(store.stored) :
       store' = [pc |-> "read", raw |-> store.raw, skills |-> store.skills,
                 stored |-> store.stored, column |-> column, read |-> safeJsonParse(column)]
  /\ UNCHANGED <<dbase, calls, normVars, matchVars, profileVars>>

\* dashboardController.js 457: the profile is saved again with the stored
\* text as its skills
UpdateSkills ==
  /\ store.pc = "read"
  /\ store' = [pc |-> "again", raw |-> store.raw, skills |-> store.skills,
               stored |-> store.stored, column |-> store.column, read |-> store.read,
               again |-> processSkills(Str(store.stored))]
  /\ UNCHANGED <<dbase, calls, normVars, matchVars, profileVars>>

StoreNext == SaveSkills \/ ReadSkills \/ UpdateSkills

SpecStore == StoreInit /\ [][StoreNext]_vars

---------------------------------------------------------------------------
(* The skill matcher specification: one POST /match-skills request against *)
(* a job_seekers table.  The table holds at most one freely chosen row     *)
(* sequence (MaxPoolFree rows of StoredSkills) followed by rows that       *)
(* rotate through FillerSkills, enough of them to pass the limit of 25.    *)

MaxPoolFree == 1   \* freely chosen rows at the head of the table
ExtraRows   == 1   \* filler rows beyond MatchLimit

\* req.body.skills: absent, or a string
QuerySkills ==
  << Undefined,
     Str(<<>>),
     Str(<<" "," ","\t">>),
     Str(<<",">>),
     Str(<<" ",";",",","|","\n",","," ">>),
     Str(<<"r","e","a","c","t",","," ","n","o","d","e">>),
     Str(<<"R","e","a","c","t">>),
     Str(<<"j","a","v","a",","," ","j","a","v","a","s","c","r","i","p","t">>),
     Str(<<"C","S","S",";","h","t","m","l">>),
     Str(<<"r","e","a","c","t",",","R","e","a","c","t">>),
     Str(<<"c","o","n","s","t","r","u","c","t","o","r">>),
     Str(<<"P","y","t","h","o","n","|","s","q","l","\n","a","w","s">>) >>

\* the skills column of a row, as the driver hands it over: the arrays
\* processSkills stores, and values other writers may have left there
StoredSkills ==
  << Arr(<<Str(<<"R","e","a","c","t">>), Str(<<"E","x","p","r","e","s","s">>), Str(<<"M","o","n","g","o","D","B">>)>>),
     Arr(<<Str(<<"R","e","a","c","t">>), Str(<<"R","e","a","c","t","J","S">>)>>),
     Arr(<<Str(<<"j","a","v","a">>), Str(<<"j","a","v","a","s","c","r","i","p","t">>)>>),
     Arr(<<Str(<<"c","s","s">>), Str(<<"h","t","m","l">>)>>),
     Arr(<<Str(<<"r","e","a","c","t">>), Str(<<"r","e","a","c","t">>)>>),
     Arr(<<>>),
     Arr(<<Str(<<>>), Null, Str(<<"P","y","t","h","o","n">>), Str(<<" ">>)>>),
     Arr(<<Num(42), Str(<<"R","e","a","c","t">>)>>),
     Str(<<"[","\"","R","e","a","c","t","\"",","," ","\"","N","o","d","e","\"","]">>),
     Str(<<"R","e","a","c","t",","," ","N","o","d","e">>),
     Str(<<"\"","R","e","a","c","t","\"">>),
     Str(<<"[","]">>),
     Null >>

FillerSkills ==
  << Arr(<<Str(<<"R","e","a","c","t">>)>>),
     Arr(<<Str(<<"J","a","v","a","S","c","r","i","p","t">>)>>),
     Arr(<<Str(<<"R","e","a","c","t"," ","N","a","t","i","v","e">>), Str(<<"N","o","d","e">>)>>) >>

PoolHeads   == UNION {[1..n -> 1..Len(StoredSkills)] : n \in 0..MaxPoolFree}
FillerCounts == {0} \cup ((MatchLimit - 1)..(MatchLimit + ExtraRows))

\* row k of the table: ids count up, every third row is busy, and createdAt
\* repeats so that rows tie on it
TableRow(k, skills) ==
  [ id           |-> k,
    skills       |-> skills,
    availability |-> IF k % 3 = 0 THEN "busy" ELSE "available",
    createdAt    |-> (k * 2) % 5 ]

Table(head, fillers) ==
  AsTuple([k \in 1..(Len(head) + fillers) |->
     IF k <= Len(head) THEN TableRow(k, StoredSkills[head[k]])
     ELSE TableRow(k, FillerSkills[((k - Len(head) - 1) % Len(FillerSkills)) + 1])])

NoResponse == [status |-> 0]

MatchInit ==
  /\ AccountsOff
  /\ mpc = "idle"
  /\ \E q \in 1..Len(QuerySkills) : mSkills = QuerySkills[q]
  /\ \E head \in PoolHeads, fillers \in FillerCounts : mRows = Table(head, fillers)
  /\ mRes = NoResponse
  /\ npc = "off"
  /\ nRaw = Undefined
  /\ nOut = NoCompletion
  /\ nOut2 = NoCompletion
  /\ ProfilesOff

\* lines 185-234: the handler up to db.query: a missing or blank skills
\* field is answered 400, anything else is sent to the database
MatchSkillsRequest ==
  /\ mpc = "idle"
  /\ IF ~Truthy(mSkills) \/ ~Truthy(Str(trim(mSkills.s)))
     THEN /\ mRes' = [status |-> 400, success |-> FALSE,
                      msg |-> "Skills are required for matching"]
          /\ mpc' = "done"
     ELSE /\ mRes' = mRes
          /\ mpc' = "querying"
  /\ UNCHANGED <<mSkills, mRows, normVars, profileVars, accountVars>>

\* lines 235-242: the database reports an error
MatchSkillsDbError ==
  /\ mpc = "querying"
  /\ mRes' = [status |-> 500, success |-> FALSE, msg |-> "Error matching skills"]
  /\ mpc' = "done"
  /\ UNCHANGED <<mSkills, mRows, normVars, profileVars, accountVars>>

\* lines 244-357: the callback of db.query on the rows it is given: the
\* response it sends and where the request then stands.  A TypeError thrown
\* in the callback is caught nowhere: no response is sent and the process
\* dies.
MatchSkillsCallback(inputSkills, allCandidates, matchedCandidates) ==
  IF matchedCandidates.type = "throw"
  THEN [pc |-> "crashed", res |-> NoResponse]
  ELSE [pc  |-> "done",
        res |-> [ status         |-> 200,
                  success        |-> TRUE,
                  matches        |-> matchedCandidates.value,
                  total          |-> Len(matchedCandidates.value),
                  searchedSkills |-> inputSkills,
                  totalCandidatesProcessed |-> Len(allCandidates) ]]

\* the query terms of line 198 and the rows of the SELECT, handed to the callback
MatchSkillsOutcome(inputSkills, allCandidates) ==
  MatchSkillsCallback(inputSkills, allCandidates, ComputeMatches(inputSkills, allCandidates))

\* the database returns the rows
MatchSkillsDbRows ==
  /\ mpc = "querying"
  /\ \E outcome \in {MatchSkillsOutcome(ParseInputSkills(mSkills.s), SelectCandidates(mRows))} :
       /\ mRes' = outcome.res
       /\ mpc' = outcome.pc
  /\ UNCHANGED <<mSkills, mRows, normVars, profileVars, accountVars>>

MatchNext == MatchSkillsRequest \/ MatchSkillsDbError \/ MatchSkillsDbRows

SpecMatch == MatchInit /\ [][MatchNext]_vars

---------------------------------------------------------------------------
(* The users/job_seekers rows read by searchJobSeekers and                 *)
(* getProfessionalCategories.  Titles, bios, locations are stored trimmed  *)
(* or NULL (registerController.js 285-291); the skills column holds what   *)
(* processSkills wrote, and also the malformed values a row written by     *)
(* other means can hold.                                                   *)

Profiles ==
  << [title |-> Str(<<"F","r","o","n","t","e","n","d"," ","D","e","v","e","l","o","p","e","r">>), bio |-> Null,
      skills |-> Arr(<< Str(<<"R","e","a","c","t">>), Str(<<"C","S","S">>) >>),
      location |-> Str(<<"P","u","n","e">>), experience |-> Str(<<"2"," ","y","e","a","r","s">>), expectedSalary |-> Str(<<"3","0","k">>),
      availability |-> "available"],
     [title |-> Str(<<"P","y","t","h","o","n"," ","D","e","v","e","l","o","p","e","r">>), bio |-> Str(<<"a","p","i","s">>),
      skills |-> Str(<<"[","\"","P","y","t","h","o","n","\"",","," ","\"","D","j","a","n","g","o","\"","]">>),
      location |-> Str(<<"D","e","l","h","i">>), experience |-> Str(<<"5"," ","y","e","a","r","s">>), expectedSalary |-> Str(<<"7","0","k">>),
      availability |-> "busy"],
     [title |-> Str(<<"E","n","g","i","n","e","e","r">>), bio |-> Str(<<"I"," ","l","o","v","e"," ","p","y","t","h","o","n"," ","a","n","d"," ","d","o","c","k","e","r">>),
      skills |-> Arr(<< Str(<<"N","o","d","e">>) >>),
      location |-> Str(<<"P","u","n","e">>), experience |-> Str(<<"5"," ","y","e","a","r","s">>), expectedSalary |-> Str(<<"1","0","0","k">>),
      availability |-> "available"],
     [title |-> Str(<<"P","l","u","m","b","e","r">>), bio |-> Null,
      skills |-> Str(<<"[","\"","p","i","p","e","s","\"",","," ">>),
      location |-> Str(<<"G","o","a">>), experience |-> Null, expectedSalary |-> Null,
      availability |-> "available"],
     [title |-> Str(<<"T","e","s","t","e","r">>), bio |-> Null,
      skills |-> Arr(<< Num(42), Null, Str(<<"S","e","l","e","n","i","u","m">>) >>),
      location |-> Str(<<"D","e","l","h","i">>), experience |-> Str(<<"2"," ","y","e","a","r","s">>), expectedSalary |-> Str(<<"2","0","k">>),
      availability |-> "busy"],
     [title |-> Str(<<"F","r","o","n","t">>), bio |-> Str(<<"E","n","d"," ","u","s","e","r"," ","h","e","l","p">>),
      skills |-> Null,
      location |-> Null, experience |-> Null, expectedSalary |-> Null,
      availability |-> "available"],
     [title |-> Str(<<>>), bio |-> Null,
      skills |-> Arr(<<>>),
      location |-> Str(<<"P","u","n","e">>), experience |-> Str(<<"2"," ","y","e","a","r","s">>), expectedSalary |-> Str(<<"5","0","k">>),
      availability |-> "available"],
     [title |-> Str(<<"A","n","a","l","y","s","t">>), bio |-> Null,
      skills |-> Str(<<"\"","E","x","c","e","l","\"">>),
      location |-> Str(<<"G","o","a">>), experience |-> Str(<<"5"," ","y","e","a","r","s">>), expectedSalary |-> Str(<<"1","2","0","k">>),
      availability |-> "busy"] >>

\* row k of the join: ids count up and createdAt repeats so that rows tie
ProfileRow(k, profile) ==
  [ id             |-> k,
    title          |-> profile.title,
    bio            |-> profile.bio,
    skills         |-> profile.skills,
    location       |-> profile.location,
    experience     |-> profile.experience,
    expectedSalary |-> profile.expectedSalary,
    availability   |-> profile.availability,
    createdAt      |-> (k * 2) % 5 ]

\* rows in the order of ORDER BY u.createdAt DESC (ties in table order)
LatestFirst(rows) ==
  LET rank == AsTuple([i \in 1..Len(rows) |->
                Cardinality({j \in 1..Len(rows) :
                    \/ rows[j].createdAt > rows[i].createdAt
                    \/ rows[j].createdAt = rows[i].createdAt /\ j < i})])
  IN  AsTuple([r \in 1..Len(rows) |-> rows[CHOOSE i \in 1..Len(rows) : rank[i] = r - 1]])

---------------------------------------------------------------------------
(* getProfessionalCategories: userSearchController.js 461-626.             *)

\* lines 487-558, in the order of Object.keys(categories)
categories ==
  << [name |-> "Frontend Developer", icon |-> "Code",
      keywords |-> << <<"f","r","o","n","t","e","n","d">>,
                      <<"f","r","o","n","t","-","e","n","d">>,
                      <<"f","r","o","n","t"," ","e","n","d">>,
                      <<"r","e","a","c","t">>,
                      <<"v","u","e">>,
                      <<"a","n","g","u","l","a","r">>,
                      <<"j","a","v","a","s","c","r","i","p","t">>,
                      <<"h","t","m","l">>,
                      <<"c","s","s">>,
                      <<"u","i"," ","d","e","v","e","l","o","p","e","r">>,
                      <<"w","e","b"," ","d","e","v","e","l","o","p","e","r">>,
                      <<"j","s","x">>,
                      <<"t","y","p","e","s","c","r","i","p","t">> >>],
     [name |-> "Backend Developer", icon |-> "Database",
      keywords |-> << <<"b","a","c","k","e","n","d">>,
                      <<"b","a","c","k","-","e","n","d">>,
                      <<"b","a","c","k"," ","e","n","d">>,
                      <<"n","o","d","e">>,
                      <<"n","o","d","e","j","s">>,
                      <<"p","y","t","h","o","n">>,
                      <<"j","a","v","a">>,
                      <<"p","h","p">>,
                      <<"a","p","i">>,
                      <<"s","e","r","v","e","r">>,
                      <<"d","a","t","a","b","a","s","e">>,
                      <<"d","j","a","n","g","o">>,
                      <<"f","l","a","s","k">>,
                      <<"s","p","r","i","n","g">> >>],
     [name |-> "Full Stack Developer", icon |-> "Layers",
      keywords |-> << <<"f","u","l","l","s","t","a","c","k">>,
                      <<"f","u","l","l","-","s","t","a","c","k">>,
                      <<"f","u","l","l"," ","s","t","a","c","k">>,
                      <<"m","e","r","n">>,
                      <<"m","e","a","n">>,
                      <<"l","a","m","p">>,
                      <<"s","t","a","c","k">> >>],
     [name |-> "Data Engineer", icon |-> "Database",
      keywords |-> << <<"d","a","t","a"," ","e","n","g","i","n","e","e","r">>,
                      <<"d","a","t","a"," ","e","n","g","i","n","e","e","r","i","n","g">>,
                      <<"e","t","l">>,
                      <<"d","a","t","a"," ","p","i","p","e","l","i","n","e">>,
                      <<"b","i","g"," ","d","a","t","a">>,
                      <<"h","a","d","o","o","p">>,
                      <<"s","p","a","r","k">>,
                      <<"a","i","r","f","l","o","w">>,
                      <<"k","a","f","k","a">> >>],
     [name |-> "Data Analyst", icon |-> "BarChart",
      keywords |-> << <<"d","a","t","a"," ","a","n","a","l","y","s","t">>,
                      <<"d","a","t","a"," ","a","n","a","l","y","s","i","s">>,
                      <<"a","n","a","l","y","s","t">>,
                      <<"b","u","s","i","n","e","s","s"," ","a","n","a","l","y","s","t">>,
                      <<"r","e","p","o","r","t","i","n","g">>,
                      <<"d","a","s","h","b","o","a","r","d">>,
                      <<"e","x","c","e","l">>,
                      <<"t","a","b","l","e","a","u">>,
                      <<"p","o","w","e","r"," ","b","i">> >>],
     [name |-> "Data Scientist", icon |-> "TrendingUp",
      keywords |-> << <<"d","a","t","a"," ","s","c","i","e","n","t","i","s","t">>,
                      <<"d","a","t","a"," ","s","c","i","e","n","c","e">>,
                      <<"m","a","c","h","i","n","e"," ","l","e","a","r","n","i","n","g">>,
                      <<"m","l">>,
                      <<"a","i">>,
                      <<"a","r","t","i","f","i","c","i","a","l"," ","i","n","t","e","l","l","i","g","e","n","c","e">>,
                      <<"a","n","a","l","y","t","i","c","s">>,
                      <<"s","t","a","t","i","s","t","i","c","s">> >>],
     [name |-> "DevOps Engineer", icon |-> "Settings",
      keywords |-> << <<"d","e","v","o","p","s">>,
                      <<"d","e","v"," ","o","p","s">>,
                      <<"d","o","c","k","e","r">>,
                      <<"k","u","b","e","r","n","e","t","e","s">>,
                      <<"a","w","s">>,
                      <<"a","z","u","r","e">>,
                      <<"g","c","p">>,
                      <<"j","e","n","k","i","n","s">>,
                      <<"c","i","/","c","d">>,
                      <<"t","e","r","r","a","f","o","r","m">>,
                      <<"a","n","s","i","b","l","e">> >>],
     [name |-> "Cloud Engineer", icon |-> "Settings",
      keywords |-> << <<"c","l","o","u","d">>,
                      <<"a","w","s">>,
                      <<"a","z","u","r","e">>,
                      <<"g","c","p">>,
                      <<"g","o","o","g","l","e"," ","c","l","o","u","d">>,
                      <<"c","l","o","u","d"," ","a","r","c","h","i","t","e","c","t">>,
                      <<"c","l","o","u","d"," ","d","e","v","e","l","o","p","e","r">>,
                      <<"e","c","2">>,
                      <<"s","3">>,
                      <<"l","a","m","b","d","a">> >>],
     [name |-> "Mobile Developer", icon |-> "Smartphone",
      keywords |-> << <<"m","o","b","i","l","e">>,
                      <<"i","o","s">>,
                      <<"a","n","d","r","o","i","d">>,
                      <<"r","e","a","c","t"," ","n","a","t","i","v","e">>,
                      <<"f","l","u","t","t","e","r">>,
                      <<"s","w","i","f","t">>,
                      <<"k","o","t","l","i","n">>,
                      <<"a","p","p"," ","d","e","v","e","l","o","p","e","r">> >>],
     [name |-> "QA Engineer", icon |-> "CheckCircle",
      keywords |-> << <<"q","a">>,
                      <<"q","u","a","l","i","t","y"," ","a","s","s","u","r","a","n","c","e">>,
                      <<"t","e","s","t","i","n","g">>,
                      <<"t","e","s","t">>,
                      <<"a","u","t","o","m","a","t","i","o","n">>,
                      <<"s","e","l","e","n","i","u","m">>,
                      <<"t","e","s","t","e","r">>,
                      <<"m","a","n","u","a","l"," ","t","e","s","t","i","n","g">>,
                      <<"t","e","s","t"," ","e","n","g","i","n","e","e","r">> >>],
     [name |-> "UI/UX Designer", icon |-> "Palette",
      keywords |-> << <<"u","i">>,
                      <<"u","x">>,
                      <<"d","e","s","i","g","n","e","r">>,
                      <<"d","e","s","i","g","n">>,
                      <<"f","i","g","m","a">>,
                      <<"s","k","e","t","c","h">>,
                      <<"a","d","o","b","e">>,
                      <<"u","s","e","r"," ","e","x","p","e","r","i","e","n","c","e">>,
                      <<"u","s","e","r"," ","i","n","t","e","r","f","a","c","e">>,
                      <<"g","r","a","p","h","i","c">> >>],
     [name |-> "Product Manager", icon |-> "Users",
      keywords |-> << <<"p","r","o","d","u","c","t"," ","m","a","n","a","g","e","r">>,
                      <<"p","r","o","d","u","c","t"," ","m","a","n","a","g","e","m","e","n","t">>,
                      <<"p","m">>,
                      <<"p","r","o","d","u","c","t"," ","o","w","n","e","r">>,
                      <<"s","c","r","u","m"," ","m","a","s","t","e","r">>,
                      <<"a","g","i","l","e">>,
                      <<"p","r","o","d","u","c","t"," ","l","e","a","d">> >>],
     [name |-> "Software Engineer", icon |-> "Code",
      keywords |-> << <<"s","o","f","t","w","a","r","e"," ","e","n","g","i","n","e","e","r">>,
                      <<"s","o","f","t","w","a","r","e"," ","d","e","v","e","l","o","p","e","r">>,
                      <<"p","r","o","g","r","a","m","m","e","r">>,
                      <<"c","o","d","i","n","g">>,
                      <<"d","e","v","e","l","o","p","m","e","n","t">>,
                      <<"e","n","g","i","n","e","e","r">> >>],
     [name |-> "Others", icon |-> "User",
      keywords |-> <<  >>] >>

Others == CHOOSE k \in 1..Len(categories) : categories[k].name = "Others"

\* the count: 0 of every category
ZeroCounts == AsTuple([k \in 1..Len(categories) |-> 0])

\* lines 464-475: the SELECT: job seekers with a title, latest first
SelectProfessionals(rows) ==
  LatestFirst(SelectSeq(rows, LAMBDA row : row.title # Null /\ row.title # Str(<<>>)))

\* lines 564-577: the skills of a professional, [] when JSON.parse throws
ParseProfessionalSkills(stored) ==
  IF ~Truthy(stored) THEN Arr(<<>>)
  ELSE IF IsString(stored) THEN
         LET parsed == JSONparse(stored.s)
         IN  IF parsed.type = "throw" THEN Arr(<<>>) ELSE parsed.value
  ELSE IF IsArray(stored) THEN stored
  ELSE Arr(<<>>)

\* Array.prototype.join: null and undefined elements give the empty string
JoinArray(a, sep) ==
  join([i \in 1..Len(a) |->
          IF a[i].t \in {"undefined", "null"} THEN <<>> ELSE ToStringJS(a[i])], sep)

\* (value || '').toLowerCase() of a text column
LowerOrEmpty(value) == IF Truthy(value) THEN toLowerCase(value.s) ELSE <<>>

\* lines 562-580: `${title} ${bio} ${skillsText}`
CombinedText(professional) ==
  LET skills     == ParseProfessionalSkills(professional.skills)
      skillsText == IF IsArray(skills) THEN toLowerCase(JoinArray(skills.a, <<" ">>)) ELSE <<>>
  IN  LowerOrEmpty(professional.title) \o <<" ">> \o LowerOrEmpty(professional.bio)
        \o <<" ">> \o skillsText

\* lines 588-590: category.keywords.some(...)
HasMatch(category, combinedText) ==
  \E i \in 1..Len(category.keywords) : includes(combinedText, toLowerCase(category.keywords[i]))

\* the category scan counting the last category that matches
RECURSIVE ScanCategoriesLast(_, _)
ScanCategoriesLast(combinedText, k) ==
  IF k > Len(categories) THEN 0
  ELSE LET later == ScanCategoriesLast(combinedText, k + 1)
       IN  IF later # 0 THEN later
           ELSE IF k # Others /\ HasMatch(categories[k], combinedText) THEN k
           ELSE 0

\* lines 582-597: the scan of the categories from the k-th on while
\* categorized is false: the category counted, 0 when there is none
RECURSIVE ScanCategories(_, _)
ScanCategories(combinedText, k) ==
  IF k > Len(categories) THEN 0
  ELSE IF k # Others /\ HasMatch(categories[k], combinedText) THEN k
  ELSE ScanCategories(combinedText, k + 1)

\* the forEach body without the categorized flag: every category that
\* matches is counted
CategorizeEveryMatch(counts, professional) ==
  LET combinedText == CombinedText(professional)
      hits == {k \in 1..Len(categories) : k # Others /\ HasMatch(categories[k], combinedText)}
  IN  AsTuple([k \in 1..Len(categories) |->
         IF k \in hits \/ (hits = {} /\ k = Others) THEN counts[k] + 1 ELSE counts[k]])

\* lines 561-603: the forEach body: the counters after one professional
Categorize(counts, professional) ==
  LET found   == ScanCategories(CombinedText(professional), 1)
      counted == IF found = 0 THEN Others ELSE found
  IN  AsTuple([k \in 1..Len(categories) |->
         IF k = counted THEN counts[k] + 1 ELSE counts[k]])

\* lines 561-603: professionals.forEach from the i-th professional on
RECURSIVE CountProfessionals(_, _, _)
CountProfessionals(professionals, i, counts) ==
  IF i > Len(professionals) THEN counts
  ELSE CountProfessionals(professionals, i + 1, Categorize(counts, professionals[i]))

\* a comparator that orders by count alone
CompareByCount(a, b) == b.count - a.count

\* lines 613-618: the comparator
CompareCategories(a, b) ==
  IF a.name = "Others" THEN 1
  ELSE IF b.name = "Others" THEN -1
  ELSE b.count - a.count

\* Array.prototype.sort with that comparator (a stable sort)
SortCategories(list) ==
  LET rank == AsTuple([i \in 1..Len(list) |->
                Cardinality({j \in 1..Len(list) :
                    \/ CompareCategories(list[j], list[i]) < 0
                    \/ CompareCategories(list[i], list[j]) >= 0 /\ j < i})])
  IN  AsTuple([r \in 1..Len(list) |-> list[CHOOSE i \in 1..Len(list) : rank[i] = r - 1]])

\* lines 606-618: categoryArray
CategoryArray(counts) ==
  LET all == [k \in 1..Len(categories) |->
                [name |-> categories[k].name, count |-> counts[k], icon |-> categories[k].icon]]
  IN  SortCategories(SelectSeq(all, LAMBDA category : category.count > 0))

\* lines 486-624: the response of the callback for the rows of the SELECT
CategoriesOutcome(professionals) ==
  [ status |-> 200, success |-> TRUE,
    categories |-> CategoryArray(CountProfessionals(professionals, 1, ZeroCounts)),
    totalProfessionals |-> Len(professionals) ]

MaxProfiles == 3   \* rows of the table

ProfileTables == UNION {[1..n -> 1..Len(Profiles)] : n \in 0..MaxProfiles}

ProfileTable(picks) == AsTuple([k \in 1..Len(picks) |-> ProfileRow(k, Profiles[picks[k]])])

CatInit ==
  /\ AccountsOff
  /\ \E picks \in ProfileTables : tRows = ProfileTable(picks)
  /\ cpc = "idle"
  /\ cRes = NoResponse
  /\ sReq = [off |-> TRUE]
  /\ spc = "off"
  /\ sRes = NoResponse
  /\ pReqs = <<>>
  /\ pAlive = TRUE
  /\ rel = [pc |-> "off"]
  /\ npc = "off"
  /\ nRaw = Undefined
  /\ nOut = NoCompletion
  /\ nOut2 = NoCompletion
  /\ mSkills = Undefined
  /\ mRows = <<>>
  /\ mpc = "off"
  /\ mRes = NoResponse

\* lines 461-477: the handler up to db.query
CategoriesRequest ==
  /\ cpc = "idle"
  /\ cpc' = "querying"
  /\ UNCHANGED <<tRows, cRes, sReq, spc, sRes, pReqs, pAlive, rel, normVars, matchVars, accountVars>>

\* lines 478-484: the query failed
CategoriesDbError ==
  /\ cpc = "querying"
  /\ cRes' = [status |-> 500, success |-> FALSE,
              msg |-> "Error fetching professional categories"]
  /\ cpc' = "done"
  /\ UNCHANGED <<tRows, sReq, spc, sRes, pReqs, pAlive, rel, normVars, matchVars, accountVars>>

\* lines 486-624: the query returned its rows
CategoriesDbRows ==
  /\ cpc = "querying"
  /\ cRes' = CategoriesOutcome(SelectProfessionals(tRows))
  /\ cpc' = "done"
  /\ UNCHANGED <<tRows, sReq, spc, sRes, pReqs, pAlive, rel, normVars, matchVars, accountVars>>

CatNext == CategoriesRequest \/ CategoriesDbError \/ CategoriesDbRows

SpecCat == CatInit /\ [][CatNext]_vars

---------------------------------------------------------------------------
(* searchJobSeekers: userSearchController.js 4-182.                        *)

SearchLimit == 50

\* text LIKE pattern, on texts of one letter case: % is any run of
\* characters, _ any one character
RECURSIVE LikeMatch(_, _)
LikeMatch(text, pattern) ==
  IF pattern = <<>> THEN text = <<>>
  ELSE IF Head(pattern) = "%" THEN
         \E k \in 0..Len(text) : LikeMatch(SubSeq(text, k + 1, Len(text)), Tail(pattern))
  ELSE /\ text # <<>>
       /\ Head(pattern) = "_" \/ Head(pattern) = Head(text)
       /\ LikeMatch(Tail(text), Tail(pattern))

\* column LIKE ? of a text column in its case-insensitive collation; NULL
\* is like nothing
SqlLike(column, pattern) ==
  column # Null /\ LikeMatch(toLowerCase(column.s), toLowerCase(pattern))

\* column LIKE '%...%' for a pattern without wildcards of its own
SqlContains(column, text) == SqlLike(column, <<"%">> \o text \o <<"%">>)

\* line 46: JSON_SEARCH(js.skills, 'one', ?, NULL, '$[*]') IS NOT NULL: some
\* string among the elements of the JSON value is like the pattern.  Whether
\* the comparison folds letter case depends on the server: caseInsensitive.
RECURSIVE JsonSearch(_, _, _)
JsonSearch(value, pattern, caseInsensitive) ==
  CASE value.t = "string" ->
         IF caseInsensitive THEN LikeMatch(toLowerCase(value.s), toLowerCase(pattern))
         ELSE LikeMatch(value.s, pattern)
    [] value.t = "array" ->
         \E i \in 1..Len(value.a) : JsonSearch(value.a[i], pattern, caseInsensitive)
    [] OTHER -> FALSE

\* value && value.trim() of a field of the request body
Given(field) == Truthy(field) /\ trim(field.s) # <<>>

\* the switch of lines 69-82 on the trimmed value
SalaryNumbersTrimmed(salaryRange) ==
  CASE trim(salaryRange) = <<"e","n","t","r","y">> -> {<<"2","0">>, <<"3","0">>, <<"4","0">>}
    [] trim(salaryRange) = <<"m","i","d">> -> {<<"5","0">>, <<"6","0">>, <<"7","0">>}
    [] trim(salaryRange) = <<"s","e","n","i","o","r">> -> {<<"7","0">>, <<"8","0">>, <<"9","0">>, <<"1","0","0">>}
    [] trim(salaryRange) = <<"e","x","p","e","r","t">> -> {<<"1","0","0">>, <<"1","2","0">>, <<"1","5","0">>}
    [] OTHER -> {}

\* lines 69-82: the numbers of the salary bracket, none for any other value
SalaryNumbers(salaryRange) ==
  CASE salaryRange = <<"e","n","t","r","y">> -> {<<"2","0">>, <<"3","0">>, <<"4","0">>}
    [] salaryRange = <<"m","i","d">> -> {<<"5","0">>, <<"6","0">>, <<"7","0">>}
    [] salaryRange = <<"s","e","n","i","o","r">> -> {<<"7","0">>, <<"8","0">>, <<"9","0">>, <<"1","0","0">>}
    [] salaryRange = <<"e","x","p","e","r","t">> -> {<<"1","0","0">>, <<"1","2","0">>, <<"1","5","0">>}
    [] OTHER -> {}

\* the text of a value of the availability ENUM
EnumText(availability) ==
  IF availability = "available" THEN <<"a","v","a","i","l","a","b","l","e">> ELSE <<"b","u","s","y">>

\* lines 36-83: the WHERE clause for one row
PassesFilters(row, body, caseInsensitive) ==
  /\ Given(body.jobTitle) =>
       LET searchTerm == <<"%">> \o trim(body.jobTitle.s) \o <<"%">>
       IN  \/ SqlLike(row.title, searchTerm)
           \/ SqlLike(row.bio, searchTerm)
           \/ JsonSearch(row.skills, searchTerm, caseInsensitive)
  /\ Given(body.location) => SqlLike(row.location, <<"%">> \o trim(body.location.s) \o <<"%">>)
  /\ Given(body.experience) =>
       row.experience # Null /\ toLowerCase(row.experience.s) = toLowerCase(trim(body.experience.s))
  /\ Given(body.availability) =>
       EnumText(row.availability) = toLowerCase(trim(body.availability.s))
  /\ (Given(body.salaryRange) /\ SalaryNumbers(body.salaryRange.s) # {}) =>
       \E number \in SalaryNumbers(body.salaryRange.s) : SqlContains(row.expectedSalary, number)

\* lines 85-91: ORDER BY available first, createdAt DESC (ties in table
\* order) LIMIT 50
AvailableLatestFirst(rows) ==
  LET before(a, b) ==
        \/ a.availability = "available" /\ b.availability # "available"
        \/ /\ (a.availability = "available") <=> (b.availability = "available")
           /\ a.createdAt > b.createdAt
      rank == AsTuple([i \in 1..Len(rows) |->
                Cardinality({j \in 1..Len(rows) :
                    \/ before(rows[j], rows[i])
                    \/ ~before(rows[i], rows[j]) /\ j < i})])
  IN  AsTuple([r \in 1..Len(rows) |-> rows[CHOOSE i \in 1..Len(rows) : rank[i] = r - 1]])

\* the query without its LIMIT
SelectJobSeekersUnlimited(rows, body, caseInsensitive) ==
  AvailableLatestFirst(SelectSeq(rows, LAMBDA row : PassesFilters(row, body, caseInsensitive)))

\* lines 15-91: the rows the query returns
SelectJobSeekers(rows, body, caseInsensitive) ==
  slice0(AvailableLatestFirst(SelectSeq(rows, LAMBDA row : PassesFilters(row, body, caseInsensitive))),
         SearchLimit)

\* lines 110-125 and 142: parsedSkills
ParseSearchSkills(stored) ==
  IF ~Truthy(stored) THEN <<>>
  ELSE IF IsString(stored) THEN
         LET parsed == JSONparse(stored.s)
         IN  IF parsed.type = "throw" THEN <<>>
             ELSE IF IsArray(parsed.value) THEN parsed.value.a
             ELSE <<>>
  ELSE IF IsArray(stored) THEN stored.a
  ELSE <<>>

\* the relevance of the skills with 3 for every skill
SkillsRelevanceThree(parsedSkills, searchTerm) ==
  3 * Cardinality({i \in 1..Len(parsedSkills) :
        Truthy(parsedSkills[i]) /\ includes(toLowerCase(parsedSkills[i].s), searchTerm)})

\* lines 151-153: 2 for every skill that contains the search term (the
\* skills are strings or falsy here)
SkillsRelevance(parsedSkills, searchTerm) ==
  2 * Cardinality({i \in 1..Len(parsedSkills) :
        Truthy(parsedSkills[i]) /\ includes(toLowerCase(parsedSkills[i].s), searchTerm)})

\* lines 146-154: relevanceScore, or the TypeError of toLowerCase called on
\* a truthy skill that is no string
Relevance(candidate, parsedSkills, jobTitle) ==
  IF ~Given(jobTitle) THEN Return(0)
  ELSE IF \E i \in 1..Len(parsedSkills) : Truthy(parsedSkills[i]) /\ ~IsString(parsedSkills[i])
  THEN Throw("TypeError")
  ELSE LET searchTerm == toLowerCase(jobTitle.s)
       IN  Return((IF Truthy(candidate.title) /\ includes(toLowerCase(candidate.title.s), searchTerm)
                   THEN 3 ELSE 0)
                  + (IF Truthy(candidate.bio) /\ includes(toLowerCase(candidate.bio.s), searchTerm)
                     THEN 2 ELSE 0)
                  + SkillsRelevance(parsedSkills, searchTerm))

\* lines 156-161: the candidate as returned
ParsedCandidate(candidate, parsedSkills, relevanceScore) ==
  IF relevanceScore.type = "throw" THEN relevanceScore
  ELSE Return([ id             |-> candidate.id,
                title          |-> candidate.title,
                bio            |-> candidate.bio,
                location       |-> candidate.location,
                experience     |-> candidate.experience,
                expectedSalary |-> candidate.expectedSalary,
                availability   |-> candidate.availability,
                createdAt      |-> candidate.createdAt,
                skills         |-> parsedSkills,
                relevanceScore |-> relevanceScore.value ])

ParseWithSkills(candidate, parsedSkills, jobTitle) ==
  ParsedCandidate(candidate, parsedSkills, Relevance(candidate, parsedSkills, jobTitle))

\* lines 109-162: the callback of candidates.map
ParseCandidate(candidate, jobTitle) ==
  ParseWithSkills(candidate, ParseSearchSkills(candidate.skills), jobTitle)

\* the list left as the query returned it
SortByRelevanceNot(list) == list

\* line 166: sort((a, b) => b.relevanceScore - a.relevanceScore), stable
SortByRelevance(list) ==
  LET rank == AsTuple([i \in 1..Len(list) |->
                Cardinality({j \in 1..Len(list) :
                    \/ list[j].relevanceScore > list[i].relevanceScore
                    \/ list[j].relevanceScore = list[i].relevanceScore /\ j < i})])
  IN  AsTuple([r \in 1..Len(list) |-> list[CHOOSE i \in 1..Len(list) : rank[i] = r - 1]])

\* lines 165-180: the response for the parsed candidates
SearchResponse(body, parsed) ==
  IF \E i \in 1..Len(parsed) : parsed[i].type = "throw"
  THEN [pc |-> "crashed", res |-> NoResponse]
  ELSE LET parsedCandidates == AsTuple([i \in 1..Len(parsed) |-> parsed[i].value])
           sortedCandidates == IF Given(body.jobTitle) THEN SortByRelevance(parsedCandidates)
                               ELSE parsedCandidates
       IN  [pc  |-> "done",
            res |-> [ status |-> 200, success |-> TRUE,
                      candidates |-> sortedCandidates,
                      total |-> Len(sortedCandidates),
                      searchCriteria |-> body ]]

\* lines 106-180: the callback for the rows of the query.  A TypeError
\* thrown in it is caught by nobody: no response is sent.
SearchOutcome(body, candidates) ==
  SearchResponse(body,
    AsTuple([i \in 1..Len(candidates) |-> ParseCandidate(candidates[i], body.jobTitle)]))

MaxSearchFree   == 1   \* freely chosen rows at the head of the table
ExtraSearchRows == 1   \* filler rows beyond SearchLimit

SearchBodies ==
  << [jobTitle |-> Undefined, location |-> Undefined, experience |-> Undefined,
      availability |-> Undefined, salaryRange |-> Undefined],
     [jobTitle |-> Str(<<>>), location |-> Undefined, experience |-> Undefined,
      availability |-> Undefined, salaryRange |-> Undefined],
     [jobTitle |-> Str(<<" "," ">>), location |-> Str(<<"p","u","n","e">>), experience |-> Undefined,
      availability |-> Undefined, salaryRange |-> Undefined],
     [jobTitle |-> Str(<<"p","y","t","h","o","n">>), location |-> Undefined, experience |-> Undefined,
      availability |-> Undefined, salaryRange |-> Undefined],
     [jobTitle |-> Str(<<"P","y","t","h","o","n">>), location |-> Undefined, experience |-> Undefined,
      availability |-> Undefined, salaryRange |-> Str(<<"m","i","d">>)],
     [jobTitle |-> Str(<<" ","p","y","t","h","o","n"," ">>), location |-> Undefined, experience |-> Undefined,
      availability |-> Undefined, salaryRange |-> Undefined],
     [jobTitle |-> Str(<<"e">>), location |-> Undefined, experience |-> Str(<<"5"," ","y","e","a","r","s">>),
      availability |-> Undefined, salaryRange |-> Undefined],
     [jobTitle |-> Str(<<"T","e","s","t">>), location |-> Undefined, experience |-> Undefined,
      availability |-> Undefined, salaryRange |-> Undefined],
     [jobTitle |-> Str(<<"p","_","t","h","%","n">>), location |-> Undefined, experience |-> Undefined,
      availability |-> Undefined, salaryRange |-> Undefined],
     [jobTitle |-> Undefined, location |-> Str(<<" ","P","u","n","e"," ">>), experience |-> Undefined,
      availability |-> Str(<<"a","v","a","i","l","a","b","l","e">>), salaryRange |-> Str(<<"e","n","t","r","y">>)],
     [jobTitle |-> Undefined, location |-> Undefined, experience |-> Undefined,
      availability |-> Str(<<"b","u","s","y">>), salaryRange |-> Str(<<"s","e","n","i","o","r">>)],
     [jobTitle |-> Undefined, location |-> Undefined, experience |-> Undefined,
      availability |-> Undefined, salaryRange |-> Str(<<"e","x","p","e","r","t">>)],
     [jobTitle |-> Str(<<"d","e","v","e","l","o","p","e","r">>), location |-> Undefined, experience |-> Undefined,
      availability |-> Undefined, salaryRange |-> Str(<<" ","m","i","d">>)],
     [jobTitle |-> Undefined, location |-> Undefined, experience |-> Undefined,
      availability |-> Undefined, salaryRange |-> Str(<<"o","t","h","e","r">>)] >>

SearchFillers ==
  << [title |-> Str(<<"P","y","t","h","o","n"," ","D","e","v","e","l","o","p","e","r">>), bio |-> Null,
      skills |-> Arr(<< Str(<<"F","l","a","s","k">>), Str(<<"D","j","a","n","g","o">>) >>),
      location |-> Str(<<"P","u","n","e">>), experience |-> Str(<<"5"," ","y","e","a","r","s">>), expectedSalary |-> Str(<<"6","0","k">>),
      availability |-> "available"],
     [title |-> Str(<<"E","n","g","i","n","e","e","r">>), bio |-> Str(<<"P","y","t","h","o","n"," ","s","c","r","i","p","t","s">>),
      skills |-> Arr(<< Str(<<"G","o">>) >>),
      location |-> Str(<<"D","e","l","h","i">>), experience |-> Str(<<"2"," ","y","e","a","r","s">>), expectedSalary |-> Str(<<"1","7","0","k">>),
      availability |-> "busy"],
     [title |-> Str(<<"D","e","s","i","g","n","e","r">>), bio |-> Null,
      skills |-> Arr(<< Str(<<"F","i","g","m","a">>), Null, Str(<<"P","Y","T","H","O","N"," ","t","o","o","l","s">>) >>),
      location |-> Str(<<"P","u","n","e">>), experience |-> Str(<<"5"," ","y","e","a","r","s">>), expectedSalary |-> Str(<<"1","0","0","k">>),
      availability |-> "available"],
     [title |-> Str(<<"P","y","t","h","o","n"," ","E","n","g","i","n","e","e","r">>), bio |-> Null,
      skills |-> Arr(<< Str(<<"P","y","t","h","o","n">>) >>),
      location |-> Str(<<"G","o","a">>), experience |-> Str(<<"2"," ","y","e","a","r","s">>), expectedSalary |-> Str(<<"9","0","k">>),
      availability |-> "busy"] >>

SearchHeads == UNION {[1..n -> 1..Len(Profiles)] : n \in 0..MaxSearchFree}
SearchFillerCounts == {0} \cup ((SearchLimit - 1)..(SearchLimit + ExtraSearchRows))

SearchTable(head, fillers) ==
  AsTuple([k \in 1..(Len(head) + fillers) |->
     IF k <= Len(head) THEN ProfileRow(k, Profiles[head[k]])
     ELSE ProfileRow(k, SearchFillers[((k - Len(head) - 1) % Len(SearchFillers)) + 1])])

SearchInit ==
  /\ AccountsOff
  /\ \E head \in SearchHeads, fillers \in SearchFillerCounts : tRows = SearchTable(head, fillers)
  /\ \E b \in 1..Len(SearchBodies) : sReq = SearchBodies[b]
  /\ spc = "idle"
  /\ sRes = NoResponse
  /\ cpc = "off"
  /\ cRes = NoResponse
  /\ pReqs = <<>>
  /\ pAlive = TRUE
  /\ rel = [pc |-> "off"]
  /\ npc = "off"
  /\ nRaw = Undefined
  /\ nOut = NoCompletion
  /\ nOut2 = NoCompletion
  /\ mSkills = Undefined
  /\ mRows = <<>>
  /\ mpc = "off"
  /\ mRes = NoResponse

\* lines 4-96: the handler up to db.query
SearchRequest ==
  /\ spc = "idle"
  /\ spc' = "querying"
  /\ UNCHANGED <<tRows, sReq, sRes, cpc, cRes, pReqs, pAlive, rel, normVars, matchVars, accountVars>>

\* lines 97-104: the query failed
SearchDbError ==
  /\ spc = "querying"
  /\ sRes' = [status |-> 500, success |-> FALSE, msg |-> "Error searching job seekers"]
  /\ spc' = "done"
  /\ UNCHANGED <<tRows, sReq, cpc, cRes, pReqs, pAlive, rel, normVars, matchVars, accountVars>>

\* lines 106-180: the query returned its rows
SearchDbRows ==
  /\ spc = "querying"
  /\ \E caseInsensitive \in BOOLEAN :
       \E outcome \in {SearchOutcome(sReq, SelectJobSeekers(tRows, sReq, caseInsensitive))} :
         /\ sRes' = outcome.res
         /\ spc' = outcome.pc
  /\ UNCHANGED <<tRows, sReq, cpc, cRes, pReqs, pAlive, rel, normVars, matchVars, accountVars>>

SearchNext == SearchRequest \/ SearchDbError \/ SearchDbRows

SpecSearch == SearchInit /\ [][SearchNext]_vars

---------------------------------------------------------------------------
(* areRelatedSkills called on a pair of skills in both orders.             *)

RelSkills ==
  << <<"r","e","a","c","t">>,
     <<"R","e","a","c","t">>,
     <<"J","a","v","a","S","c","r","i","p","t">>,
     <<"j","a","v","a","s","c","r","i","p","t">>,
     <<"n","o","d","e">>,
     <<"E","x","p","r","e","s","s">>,
     <<"c","s","s">>,
     <<"H","T","M","L">>,
     <<"s","a","s","s">>,
     <<"S","C","S","S">>,
     <<"c","o","o","k","i","n","g">>,
     <<"c","o","n","s","t","r","u","c","t","o","r">>,
     <<"_","_","p","r","o","t","o","_","_">>,
     <<>> >>

RelInit ==
  /\ AccountsOff
  /\ \E a, b \in 1..Len(RelSkills) :
       rel = [pc |-> "input", skill1 |-> RelSkills[a], skill2 |-> RelSkills[b],
              forward |-> NoCompletion, backward |-> NoCompletion]
  /\ tRows = <<>>
  /\ sReq = [off |-> TRUE]
  /\ spc = "off"
  /\ sRes = NoResponse
  /\ cpc = "off"
  /\ cRes = NoResponse
  /\ pReqs = <<>>
  /\ pAlive = TRUE
  /\ npc = "off"
  /\ nRaw = Undefined
  /\ nOut = NoCompletion
  /\ nOut2 = NoCompletion
  /\ mSkills = Undefined
  /\ mRows = <<>>
  /\ mpc = "off"
  /\ mRes = NoResponse

\* areRelatedSkills(skill1, skill2)
RelForward ==
  /\ rel.pc = "input"
  /\ rel' = [rel EXCEPT !.pc = "forward",
                        !.forward = areRelatedSkills(rel.skill1, rel.skill2)]
  /\ UNCHANGED <<tRows, sReq, spc, sRes, cpc, cRes, pReqs, pAlive, normVars, matchVars, accountVars>>

\* areRelatedSkills(skill2, skill1)
RelBackward ==
  /\ rel.pc = "forward"
  /\ rel' = [rel EXCEPT !.pc = "both",
                        !.backward = areRelatedSkills(rel.skill2, rel.skill1)]
  /\ UNCHANGED <<tRows, sReq, spc, sRes, cpc, cRes, pReqs, pAlive, normVars, matchVars, accountVars>>

RelNext == RelForward \/ RelBackward

SpecRel == RelInit /\ [][RelNext]_vars

---------------------------------------------------------------------------
(* The server with several requests in flight: routes/userSearchRoutes.js  *)
(* 14-26.  Node runs one handler or one database callback at a time; the   *)
(* callbacks of the requests come back in any order.  An error thrown in a *)
(* database callback is caught by nobody (no handler is registered for     *)
(* uncaughtException): the process dies and answers no request any more.   *)

Slots          == 2   \* requests in flight
MaxServerRows  == 1   \* rows of the table

Requests ==
  << [kind |-> "search", body |-> [jobTitle |-> Undefined, location |-> Undefined, experience |-> Undefined,
                availability |-> Undefined, salaryRange |-> Undefined]],
     [kind |-> "search", body |-> [jobTitle |-> Str(<<"p","y","t","h","o","n">>), location |-> Undefined, experience |-> Undefined,
                availability |-> Undefined, salaryRange |-> Undefined]],
     [kind |-> "match", body |-> [skills |-> Str(<<"r","e","a","c","t",","," ","n","o","d","e">>)]],
     [kind |-> "match", body |-> [skills |-> Str(<<"c","o","n","s","t","r","u","c","t","o","r">>)]],
     [kind |-> "match", body |-> [skills |-> Str(<<" ">>)]],
     [kind |-> "categories", body |-> [none |-> TRUE]] >>

ServerTables == UNION {[1..n -> 1..Len(Profiles)] : n \in 0..MaxServerRows}

ServerInit ==
  /\ AccountsOff
  /\ \E picks \in ServerTables : tRows = ProfileTable(picks)
  /\ \E choice \in [1..Slots -> 1..Len(Requests)] :
       pReqs = AsTuple([i \in 1..Slots |->
                  [kind |-> Requests[choice[i]].kind, body |-> Requests[choice[i]].body,
                   pc |-> "received", res |-> NoResponse]])
  /\ pAlive = TRUE
  /\ rel = [pc |-> "off"]
  /\ sReq = [off |-> TRUE]
  /\ spc = "off"
  /\ sRes = NoResponse
  /\ cpc = "off"
  /\ cRes = NoResponse
  /\ npc = "off"
  /\ nRaw = Undefined
  /\ nOut = NoCompletion
  /\ nOut2 = NoCompletion
  /\ mSkills = Undefined
  /\ mRows = <<>>
  /\ mpc = "off"
  /\ mRes = NoResponse

\* the handler of the request up to db.query: matchSkills answers 400 to
\* missing or blank skills (lines 190-195), every other request is sent to
\* the database
Handle(request) ==
  IF request.kind = "match" /\
     (~Truthy(request.body.skills) \/ ~Truthy(Str(trim(request.body.skills.s))))
  THEN [pc |-> "done",
        res |-> [status |-> 400, success |-> FALSE, msg |-> "Skills are required for matching"]]
  ELSE [pc |-> "querying", res |-> NoResponse]

\* the response to a failed query: lines 97-104, 235-242, 478-484
DbErrorResponse(request) ==
  [ status |-> 500, success |-> FALSE,
    msg |-> CASE request.kind = "search"     -> "Error searching job seekers"
              [] request.kind = "match"      -> "Error matching skills"
              [] request.kind = "categories" -> "Error fetching professional categories" ]

\* what the database callback of the request does on the rows of the table
CallbackOutcomes(request, rows) ==
  CASE request.kind = "search" ->
         { SearchOutcome(request.body, SelectJobSeekers(rows, request.body, caseInsensitive)) :
             caseInsensitive \in BOOLEAN }
    [] request.kind = "match" ->
         { MatchSkillsOutcome(ParseInputSkills(request.body.skills.s), SelectCandidates(rows)) }
    [] request.kind = "categories" ->
         { [pc |-> "done", res |-> CategoriesOutcome(SelectProfessionals(rows))] }

\* Express calls the handler of request i
ServerHandle(i) ==
  /\ pAlive
  /\ pReqs[i].pc = "received"
  /\ pReqs' = [pReqs EXCEPT ![i].pc = Handle(pReqs[i]).pc, ![i].res = Handle(pReqs[i]).res]
  /\ UNCHANGED <<pAlive, tRows, rel, sReq, spc, sRes, cpc, cRes, normVars, matchVars, accountVars>>

\* the query of request i failed
ServerDbError(i) ==
  /\ pAlive
  /\ pReqs[i].pc = "querying"
  /\ pReqs' = [pReqs EXCEPT ![i].pc = "done", ![i].res = DbErrorResponse(pReqs[i])]
  /\ UNCHANGED <<pAlive, tRows, rel, sReq, spc, sRes, cpc, cRes, normVars, matchVars, accountVars>>

\* the query of request i returned its rows
ServerDbRows(i) ==
  /\ pAlive
  /\ pReqs[i].pc = "querying"
  /\ \E outcome \in CallbackOutcomes(pReqs[i], tRows) :
       /\ pReqs' = [pReqs EXCEPT ![i].pc = outcome.pc, ![i].res = outcome.res]
       /\ pAlive' = (outcome.pc # "crashed")
  /\ UNCHANGED <<tRows, rel, sReq, spc, sRes, cpc, cRes, normVars, matchVars, accountVars>>

ServerNext ==
  \E i \in 1..Slots : ServerHandle(i) \/ ServerDbError(i) \/ ServerDbRows(i)

SpecServer == ServerInit /\ [][ServerNext]_vars

---------------------------------------------------------------------------
(* Registration and profile update on the one database connection:         *)
(* registerController.js 391-586 and dashboardController.js 227-435 over   *)
(* the connection of config/db (mysql.createConnection).  The connection   *)
(* runs the statements it is handed one at a time, in the order they were  *)
(* handed over; a request hands over its next statement when the callback  *)
(* of the previous one runs.  START TRANSACTION, COMMIT and ROLLBACK act   *)
(* on the connection's one transaction, whoever sent them: a START         *)
(* TRANSACTION commits the transaction that is open, a ROLLBACK undoes     *)
(* every write made since the last START TRANSACTION, and a write made     *)
(* outside a transaction is committed at once.                             *)

RegSlots == 2   \* requests in flight

\* the requests: POST /register and PUT /profile (of the user of id 1) with
\* their email and userName; badProfile: the profile values are refused by
\* the profile table (a value outside the ENUM, a text too long)
AccountRequests ==
  << [kind |-> "register", valid |-> TRUE,  email |-> "e2", userName |-> "u2", badProfile |-> FALSE],
     [kind |-> "register", valid |-> TRUE,  email |-> "e2", userName |-> "u2", badProfile |-> TRUE],
     [kind |-> "register", valid |-> TRUE,  email |-> "e1", userName |-> "u3", badProfile |-> FALSE],
     [kind |-> "register", valid |-> TRUE,  email |-> "e3", userName |-> "u2", badProfile |-> FALSE],
     [kind |-> "register", valid |-> FALSE, email |-> "e3", userName |-> "u3", badProfile |-> FALSE],
     [kind |-> "update",   valid |-> TRUE,  email |-> "e1", userName |-> "u1", badProfile |-> FALSE],
     [kind |-> "update",   valid |-> TRUE,  email |-> "e2", userName |-> "u1", badProfile |-> FALSE],
     [kind |-> "update",   valid |-> TRUE,  email |-> "e1", userName |-> "u1", badProfile |-> TRUE] >>

\* a request as the server holds it: userId is req.user.id of an update
\* and the insertId of a registration (0: none yet), err the error caught
NewCall(request) ==
  [ kind |-> request.kind, valid |-> request.valid, email |-> request.email,
    userName |-> request.userName, badProfile |-> request.badProfile,
    pc |-> "new", userId |-> IF request.kind = "update" THEN 1 ELSE 0,
    err |-> "none", res |-> NoResponse ]

\* the tables with one registered job seeker; by: the request that wrote
\* the row last (0: written before the run)
RegisterInit ==
  /\ dbase = [ users     |-> {[id |-> 1, email |-> "e1", userName |-> "u1", by |-> 0]},
               profiles  |-> {[userId |-> 1, by |-> 0]},
               cUsers    |-> {[id |-> 1, email |-> "e1", userName |-> "u1", by |-> 0]},
               cProfiles |-> {[userId |-> 1, by |-> 0]},
               inTx      |-> FALSE,
               nextId    |-> 2,
               queue     |-> <<>> ]
  /\ \E chosen \in [1..RegSlots -> 1..Len(AccountRequests)] :
       calls = [i \in 1..RegSlots |-> NewCall(AccountRequests[chosen[i]])]
  /\ store = [pc |-> "off"]
  /\ npc = "off"
  /\ nRaw = Undefined
  /\ nOut = NoCompletion
  /\ nOut2 = NoCompletion
  /\ mSkills = Undefined
  /\ mRows = <<>>
  /\ mpc = "off"
  /\ mRes = [status |-> 0]
  /\ ProfilesOff

\* db.beginTransaction: START TRANSACTION commits what is open
BeginTransaction(d) ==
  [d EXCEPT !.cUsers = d.users, !.cProfiles = d.profiles, !.inTx = TRUE]

\* db.commit
CommitTransaction(d) ==
  [d EXCEPT !.cUsers = d.users, !.cProfiles = d.profiles, !.inTx = FALSE]

\* registerController.js 231-238: db.rollback: the tables go back to what
\* was committed last
rollbackTransaction(d) ==
  [d EXCEPT !.users = d.cUsers, !.profiles = d.cProfiles, !.inTx = FALSE]

\* an INSERT or UPDATE: part of the open transaction, or committed at once
WriteTables(d, users, profiles) ==
  IF d.inTx THEN [d EXCEPT !.users = users, !.profiles = profiles]
  ELSE [d EXCEPT !.users = users, !.profiles = profiles,
                 !.cUsers = users, !.cProfiles = profiles]

\* the outcome of a statement: the tables, the request, and the statement
\* the request hands over next ("none": it hands over nothing)
Outcome(d, call, next) == [db |-> d, call |-> call, next |-> next]

Failed(call, err) == [call EXCEPT !.err = err]

\* registerController.js 189-204: checkExistingUser
checkExistingUser(d, call) ==
  IF \E u \in d.users : u.email = call.email \/ u.userName = call.userName
  THEN Outcome(d, Failed(call, "conflict"), "rollback")
  ELSE Outcome(d, [call EXCEPT !.pc = "hashing"], "none")

\* registerController.js 206-229: insertUser; email and userName are UNIQUE
insertUser(d, call, i) ==
  IF \E u \in d.users : u.email = call.email \/ u.userName = call.userName
  THEN Outcome(d, Failed(call, "ER_DUP_ENTRY"), "rollback")
  ELSE Outcome([WriteTables(d, d.users \cup {[id |-> d.nextId, email |-> call.email,
                                              userName |-> call.userName, by |-> i]},
                            d.profiles)
                  EXCEPT !.nextId = d.nextId + 1],
               [call EXCEPT !.userId = d.nextId], "insertProfile")

\* registerController.js 252-309: handleJobSeekerProfileCreation; userId is
\* a FOREIGN KEY to users(id)
insertProfile(d, call, i) ==
  IF call.badProfile \/ ~\E u \in d.users : u.id = call.userId
  THEN Outcome(d, Failed(call, "ER_OTHER"), "rollback")
  ELSE Outcome(WriteTables(d, d.users, d.profiles \cup {[userId |-> call.userId, by |-> i]}),
               call, "commit")

\* registerController.js 563-585 and dashboardController.js 413-434: the
\* response for the error caught
ErrorResponse(call) ==
  CASE call.err = "conflict" ->
         [status |-> 409, success |-> FALSE, msg |-> "User with this email or username already exists"]
    [] call.err = "ER_DUP_ENTRY" ->
         [status |-> 409, success |-> FALSE, msg |-> "User with this email or username already exists"]
    [] call.err = "notfound" -> [status |-> 404, success |-> FALSE, msg |-> "User not found"]
    [] OTHER -> [status |-> 500, success |-> FALSE, msg |-> "Server error"]

Answered(call, res) == [call EXCEPT !.pc = "done", !.res = res]

\* registerController.js 447-561: the statement of a registration that the
\* connection has run, and what the request does in its callback
RegisterStatement(d, call, i, stmt) ==
  CASE stmt = "begin"         -> Outcome(BeginTransaction(d), call, "check")
    [] stmt = "check"         -> checkExistingUser(d, call)
    [] stmt = "insertUser"    -> insertUser(d, call, i)
    [] stmt = "insertProfile" -> insertProfile(d, call, i)
    [] stmt = "commit"        ->
         Outcome(CommitTransaction(d),
                 Answered(call, [status |-> 201, success |-> TRUE,
                                 msg |-> "Registration successful! Welcome to TalentConnect!"]),
                 "none")
    [] stmt = "rollback"      ->
         Outcome(rollbackTransaction(d), Answered(call, ErrorResponse(call)), "none")

\* dashboardController.js 300-323: the conflict query of an update
conflictQuery(d, call) ==
  IF \E u \in d.users :
       (u.email = call.email \/ u.userName = call.userName) /\ u.id # call.userId
  THEN Outcome(d, Failed(call, "conflict"), "rollback")
  ELSE Outcome(d, call, "updateUser")

\* dashboardController.js 326-348: UPDATE users ... WHERE id = ?
updateUserQuery(d, call, i) ==
  IF \E u \in d.users :
       (u.email = call.email \/ u.userName = call.userName) /\ u.id # call.userId
  THEN Outcome(d, Failed(call, "ER_DUP_ENTRY"), "rollback")
  ELSE Outcome(WriteTables(d, {IF u.id = call.userId
                               THEN [id |-> u.id, email |-> call.email,
                                     userName |-> call.userName, by |-> i]
                               ELSE u : u \in d.users},
                           d.profiles),
               call, "selectType")

\* dashboardController.js 352-369: SELECT userType FROM users WHERE id = ?
getUserTypeQuery(d, call) ==
  IF \E u \in d.users : u.id = call.userId
  THEN Outcome(d, call, "updateProfile")
  ELSE Outcome(d, Failed(call, "notfound"), "rollback")

\* dashboardController.js 438-505: updateJobSeekerProfileWithFiles
updateProfile(d, call, i) ==
  IF call.badProfile THEN Outcome(d, Failed(call, "ER_OTHER"), "rollback")
  ELSE Outcome(WriteTables(d, d.users,
                           {IF p.userId = call.userId THEN [userId |-> p.userId, by |-> i]
                            ELSE p : p \in d.profiles}),
               call, "commit")

\* dashboardController.js 289-411: the statement of a profile update that
\* the connection has run, and what the request does in its callback
UpdateStatement(d, call, i, stmt) ==
  CASE stmt = "begin"         -> Outcome(BeginTransaction(d), call, "conflictCheck")
    [] stmt = "conflictCheck" -> conflictQuery(d, call)
    [] stmt = "updateUser"    -> updateUserQuery(d, call, i)
    [] stmt = "selectType"    -> getUserTypeQuery(d, call)
    [] stmt = "updateProfile" -> updateProfile(d, call, i)
    [] stmt = "commit"        ->
         Outcome(CommitTransaction(d),
                 Answered(call, [status |-> 200, success |-> TRUE,
                                 msg |-> "Profile updated successfully"]),
                 "none")
    [] stmt = "rollback"      ->
         Outcome(rollbackTransaction(d), Answered(call, ErrorResponse(call)), "none")

\* the request hands a statement to the connection
Handed(d, i, stmt) ==
  IF stmt = "none" THEN d
  ELSE [d EXCEPT !.queue = Append(d.queue, [call |-> i, stmt |-> stmt])]

\* registerController.js 391-458 and dashboardController.js 227-298: the
\* handler up to db.beginTransaction: a request that fails the validation
\* is answered 400
registerUser(i) ==
  /\ calls[i].pc = "new"
  /\ IF calls[i].valid
     THEN /\ calls' = [calls EXCEPT ![i].pc = "waiting"]
          /\ dbase' = Handed(dbase, i, "begin")
     ELSE /\ calls' = [calls EXCEPT ![i] = Answered(calls[i],
                         [status |-> 400, success |-> FALSE, msg |-> "validation"])]
          /\ dbase' = dbase
  /\ UNCHANGED <<store, normVars, matchVars, profileVars>>

\* the connection runs the statement at the head of its queue and calls the
\* request back
RunStatement ==
  /\ dbase.queue # <<>>
  /\ \E outcome \in {IF calls[Head(dbase.queue).call].kind = "register"
                     THEN RegisterStatement([dbase EXCEPT !.queue = Tail(dbase.queue)],
                                            calls[Head(dbase.queue).call],
                                            Head(dbase.queue).call, Head(dbase.queue).stmt)
                     ELSE UpdateStatement([dbase EXCEPT !.queue = Tail(dbase.queue)],
                                          calls[Head(dbase.queue).call],
                                          Head(dbase.queue).call, Head(dbase.queue).stmt)} :
       /\ dbase' = Handed(outcome.db, Head(dbase.queue).call, outcome.next)
       /\ calls' = [calls EXCEPT ![Head(dbase.queue).call] = outcome.call]
  /\ UNCHANGED <<store, normVars, matchVars, profileVars>>

\* registerController.js 478-493: bcrypt.hash resolves and the request hands
\* over its INSERT INTO users
PasswordHashed(i) ==
  /\ calls[i].pc = "hashing"
  /\ calls' = [calls EXCEPT ![i].pc = "waiting"]
  /\ dbase' = Handed(dbase, i, "insertUser")
  /\ UNCHANGED <<store, normVars, matchVars, profileVars>>

RegisterNext ==
  \/ \E i \in 1..RegSlots : registerUser(i) \/ PasswordHashed(i)
  \/ RunStatement

SpecRegister == RegisterInit /\ [][RegisterNext]_vars

---------------------------------------------------------------------------
(* Forgotten and reset passwords: forgotPassword (part_000 121-222) and    *)
(* resetPassword (part_000 225-338; loginController.js 171-258 is the same *)
(* sequence of queries) on the one database connection.  A request hands   *)
(* its next query to the connection in the callback of the previous one;   *)
(* between the SELECT and the UPDATE of resetPassword the new password is  *)
(* hashed, and the queries of other requests run meanwhile.                *)

ResetSlots == 2   \* requests in flight

\* the 6-digit tokens Math.random can produce, two of them
Tokens == {"111111", "222222"}

\* POST /forgot-password with an email, POST /reset-password with a token
\* and a new password; valid: the request passes the checks of the handler
ResetRequests ==
  << [kind |-> "forgot", valid |-> TRUE,  email |-> "e1",  token |-> "",       newPassword |-> ""],
     [kind |-> "forgot", valid |-> TRUE,  email |-> "e9",  token |-> "",       newPassword |-> ""],
     [kind |-> "forgot", valid |-> FALSE, email |-> "e1@", token |-> "",       newPassword |-> ""],
     [kind |-> "reset",  valid |-> TRUE,  email |-> "",    token |-> "111111", newPassword |-> "pwA"],
     [kind |-> "reset",  valid |-> TRUE,  email |-> "",    token |-> "111111", newPassword |-> "pwB"],
     [kind |-> "reset",  valid |-> TRUE,  email |-> "",    token |-> "222222", newPassword |-> "pwA"],
     [kind |-> "reset",  valid |-> FALSE, email |-> "",    token |-> "12",     newPassword |-> "pwA"] >>

\* a request as the server holds it: found tells whether the SELECT by
\* email returned a row, user is the id of users[0], newToken the token
\* generated for it
NewResetCall(request) ==
  [ kind |-> request.kind, valid |-> request.valid, email |-> request.email,
    token |-> request.token, newPassword |-> request.newPassword,
    pc |-> "new", found |-> "unknown", user |-> 0, newToken |-> "", res |-> NoResponse ]

NoToken == [resetToken |-> "NULL", live |-> FALSE]

\* the users table: resetToken with live telling resetTokenExpiry > NOW();
\* issued: how many times each token value has been stored for a user
ResetInit ==
  /\ \E first \in {NoToken, [resetToken |-> "111111", live |-> TRUE]} :
       dbase = [ users  |-> << [email |-> "e1", password |-> "old1",
                                resetToken |-> first.resetToken, live |-> first.live],
                               [email |-> "e2", password |-> "old2",
                                resetToken |-> "NULL", live |-> FALSE] >>,
                 issued |-> [t \in Tokens |-> IF t = first.resetToken THEN 1 ELSE 0],
                 queue  |-> <<>> ]
  /\ \E chosen \in [1..ResetSlots -> 1..Len(ResetRequests)] :
       calls = [i \in 1..ResetSlots |-> NewResetCall(ResetRequests[chosen[i]])]
  /\ store = [pc |-> "off"]
  /\ npc = "off"
  /\ nRaw = Undefined
  /\ nOut = NoCompletion
  /\ nOut2 = NoCompletion
  /\ mSkills = Undefined
  /\ mRows = <<>>
  /\ mpc = "off"
  /\ mRes = [status |-> 0]
  /\ ProfilesOff

Respond(call, status, success, msg) ==
  [call EXCEPT !.pc = "done", !.res = [status |-> status, success |-> success, msg |-> msg]]

\* part_000 136-166: the callback of the SELECT by email.  An unknown email
\* is answered at once; for a known one a token is generated and stored.
checkUserQuery(d, call, i, ok, token) ==
  IF ~ok THEN Outcome(d, Respond(call, 500, FALSE, "Database error occurred"), "none")
  ELSE IF ~\E u \in 1..Len(d.users) : d.users[u].email = call.email
  THEN Outcome(d, Respond([call EXCEPT !.found = "no"], 200, TRUE,
                          "If email exists, reset instructions have been sent"),
               "none")
  ELSE Outcome(d, [call EXCEPT !.found = "yes",
                               !.user = SetMin({u \in 1..Len(d.users) : d.users[u].email = call.email}),
                               !.newToken = token],
               "storeToken")

\* part_000 168-179: UPDATE users SET resetToken = ?, resetTokenExpiry = ?
\* WHERE id = ?, then the mail is sent
updateTokenQuery(d, call, i, ok) ==
  IF ~ok THEN Outcome(d, Respond(call, 500, FALSE, "Error processing request"), "none")
  ELSE Outcome([d EXCEPT !.users[call.user].resetToken = call.newToken,
                         !.users[call.user].live = TRUE,
                         !.issued[call.newToken] = @ + 1],
               [call EXCEPT !.pc = "mailing"], "none")

\* part_000 253-284: SELECT ... WHERE resetToken = ? AND resetTokenExpiry >
\* NOW() and its callback: no row is answered 400, a row starts the hashing
\* of the new password
findUserQuery(d, call, i, ok) ==
  IF ~ok THEN Outcome(d, Respond(call, 500, FALSE, "Database error occurred"), "none")
  ELSE IF ~\E u \in 1..Len(d.users) : d.users[u].resetToken = call.token /\ d.users[u].live
  THEN Outcome(d, Respond(call, 400, FALSE, "Invalid or expired reset token"), "none")
  ELSE Outcome(d, [call EXCEPT !.pc = "hashing",
                               !.user = SetMin({u \in 1..Len(d.users) :
                                                  d.users[u].resetToken = call.token /\ d.users[u].live})],
               "none")

\* part_000 287-303: UPDATE users SET password = ?, resetToken = NULL,
\* resetTokenExpiry = NULL WHERE id = ?
updatePasswordQuery(d, call, i, ok) ==
  IF ~ok THEN Outcome(d, Respond(call, 500, FALSE, "Error updating password"), "none")
  ELSE Outcome([d EXCEPT !.users[call.user].password = call.newPassword,
                         !.users[call.user].resetToken = "NULL",
                         !.users[call.user].live = FALSE],
               [call EXCEPT !.pc = "confirming"], "none")

\* the query the connection has run and the callback of the request
ResetStatement(d, call, i, stmt, ok, token) ==
  CASE stmt = "findEmail"      -> checkUserQuery(d, call, i, ok, token)
    [] stmt = "storeToken"     -> updateTokenQuery(d, call, i, ok)
    [] stmt = "findToken"      -> findUserQuery(d, call, i, ok)
    [] stmt = "updatePassword" -> updatePasswordQuery(d, call, i, ok)

\* part_000 121-138: the handler of forgotPassword up to its SELECT
forgotPassword(i) ==
  /\ calls[i].pc = "new"
  /\ calls[i].kind = "forgot"
  /\ IF calls[i].valid
     THEN /\ calls' = [calls EXCEPT ![i].pc = "waiting"]
          /\ dbase' = Handed(dbase, i, "findEmail")
     ELSE /\ calls' = [calls EXCEPT ![i] = Respond(calls[i], 400, FALSE,
                                                    "Valid email address is required")]
          /\ dbase' = dbase
  /\ UNCHANGED <<store, normVars, matchVars, profileVars>>

\* part_000 225-259: the handler of resetPassword up to its SELECT
resetPassword(i) ==
  /\ calls[i].pc = "new"
  /\ calls[i].kind = "reset"
  /\ IF calls[i].valid
     THEN /\ calls' = [calls EXCEPT ![i].pc = "waiting"]
          /\ dbase' = Handed(dbase, i, "findToken")
     ELSE /\ calls' = [calls EXCEPT ![i] = Respond(calls[i], 400, FALSE,
                                                    "Invalid reset token format")]
          /\ dbase' = dbase
  /\ UNCHANGED <<store, normVars, matchVars, profileVars>>

\* the connection runs the query at the head of its queue, with or without
\* an error, and calls the request back
RunQuery ==
  /\ dbase.queue # <<>>
  /\ \E ok \in BOOLEAN, token \in Tokens :
       \E outcome \in {ResetStatement([dbase EXCEPT !.queue = Tail(dbase.queue)],
                                      calls[Head(dbase.queue).call],
                                      Head(dbase.queue).call, Head(dbase.queue).stmt,
                                      ok, token)} :
         /\ dbase' = Handed(outcome.db, Head(dbase.queue).call, outcome.next)
         /\ calls' = [calls EXCEPT ![Head(dbase.queue).call] = outcome.call]
  /\ UNCHANGED <<store, normVars, matchVars, profileVars>>

\* part_000 181-205: sendPasswordResetEmail resolves, with success or not
ResetEmailSent(i) ==
  /\ calls[i].pc = "mailing"
  /\ \E success \in BOOLEAN :
       calls' = [calls EXCEPT ![i] =
                   IF success
                   THEN Respond(calls[i], 200, TRUE,
                                "Password reset instructions have been sent to your email")
                   ELSE Respond(calls[i], 500, FALSE,
                                "Error sending reset email. Please try again later.")]
  /\ UNCHANGED <<dbase, store, normVars, matchVars, profileVars>>

\* part_000 283-300: bcrypt.hash resolves and the UPDATE is handed over
NewPasswordHashed(i) ==
  /\ calls[i].pc = "hashing"
  /\ calls' = [calls EXCEPT ![i].pc = "waiting"]
  /\ dbase' = Handed(dbase, i, "updatePassword")
  /\ UNCHANGED <<store, normVars, matchVars, profileVars>>

\* part_000 305-321: the confirmation mail is over, sent or not, and the
\* success is answered
ConfirmationSent(i) ==
  /\ calls[i].pc = "confirming"
  /\ calls' = [calls EXCEPT ![i] =
                 Respond(calls[i], 200, TRUE, "Password has been reset successfully.")]
  /\ UNCHANGED <<dbase, store, normVars, matchVars, profileVars>>

\* an hour has passed since the token of the user was stored
TokenExpires(u) ==
  /\ dbase.users[u].live
  /\ dbase' = [dbase EXCEPT !.users[u].live = FALSE]
  /\ UNCHANGED <<calls, store, normVars, matchVars, profileVars>>

ResetNext ==
  \/ \E i \in 1..ResetSlots :
       \/ forgotPassword(i) \/ resetPassword(i)
       \/ ResetEmailSent(i) \/ NewPasswordHashed(i) \/ ConfirmationSent(i)
  \/ RunQuery
  \/ \E u \in 1..2 : TokenExpires(u)

SpecReset == ResetInit /\ [][ResetNext]_vars

---------------------------------------------------------------------------
(* Properties of matchSkills, checked under SpecMatch.                     *)

\* the request was answered with the match list
Matched == mpc = "done" /\ mRes.status = 200

\* id and matchScore of every row the callback processed (in a state where
\* the callback threw for none of them)
ScoredRows(inputSkills, rows) ==
  AsTuple([i \in 1..Len(rows) |->
             [id |-> rows[i].id,
              matchScore |-> MatchCandidate(inputSkills, rows[i]).value.matchScore]])

Returned(matches, id) == \E j \in 1..Len(matches) : matches[j].id = id
Positive(scored) == {i \in 1..Len(scored) : scored[i].matchScore > 0}

\* C1 as stated: every matchScore that matchSkills computes is an integer
\* from 0 to 100.
C1_ScoreInRange ==
  Matched => \A j \in 1..Len(mRes.matches) : mRes.matches[j].matchScore \in 0..100

ExcludedIffZero(scored, matches) ==
  \A i \in 1..Len(scored) : (scored[i].matchScore = 0) <=> ~Returned(matches, scored[i].id)

\* C2 as stated: a candidate is absent from the matches if and only if its
\* matchScore is 0, whatever the size of the pool.
C2_ExcludedIffZero ==
  Matched => ExcludedIffZero(ScoredRows(mRes.searchedSkills, SelectCandidates(mRows)), mRes.matches)

ZeroOutPositiveInUpToLimit(scored, matches) ==
  /\ \A i \in 1..Len(scored) : scored[i].matchScore = 0 => ~Returned(matches, scored[i].id)
  /\ \A j \in 1..Len(matches) : matches[j].matchScore > 0
  /\ Cardinality(Positive(scored)) <= 25 =>
       \A i \in Positive(scored) : Returned(matches, scored[i].id)
  /\ Cardinality(Positive(scored)) > 25 => Len(matches) = 25

\* C2 as amended: every candidate of matchScore 0 is absent from the
\* matches; a candidate of matchScore > 0 is present whenever at most 25
\* candidates score above 0, and with more than 25 of them exactly 25 are
\* returned.
C2_ZeroOutPositiveInUpToLimit ==
  Matched =>
    ZeroOutPositiveInUpToLimit(ScoredRows(mRes.searchedSkills, SelectCandidates(mRows)),
                               mRes.matches)

MoreThanLimitAndAZero(scored) ==
  /\ Cardinality(Positive(scored)) > 25
  /\ \E i \in 1..Len(scored) : scored[i].matchScore = 0

\* more than 25 candidates scored above 0, one scored 0, and 25 were returned
C2_Witness ==
  /\ Matched
  /\ Len(mRes.matches) = 25
  /\ MoreThanLimitAndAZero(ScoredRows(mRes.searchedSkills, SelectCandidates(mRows)))

\* the skills of a match are exactly the query terms, letter case aside
SameTerms(skills, inputSkills) ==
  {toLowerCase(skills[i]) : i \in 1..Len(skills)} = {inputSkills[q] : q \in 1..Len(inputSkills)}

\* C3 as stated: a candidate whose skills are exactly the query terms
\* (compared case-insensitively) scores 100.
C3_ExactTermsScore100 ==
  Matched =>
    \A j \in 1..Len(mRes.matches) :
      SameTerms(mRes.matches[j].skills, mRes.searchedSkills) => mRes.matches[j].matchScore = 100

ReactNode        == <<"r","e","a","c","t",","," ","n","o","d","e">>
ReactExpressMongo == << <<"R","e","a","c","t">>, <<"E","x","p","r","e","s","s">>, <<"M","o","n","g","o","D","B">> >>

\* C4: for the query "react, node" a candidate with the skills React,
\* Express, MongoDB has one exact match, no partial match and one related
\* match: raw score 4 of 6, matchScore 67, matchingSkills React and Express.
C4_ReactNodeExample ==
  Matched /\ mSkills.s = ReactNode =>
    \A j \in 1..Len(mRes.matches) :
      mRes.matches[j].skills = ReactExpressMongo =>
        /\ mRes.matches[j].matchDetails.exact = 1
        /\ mRes.matches[j].matchDetails.partial = 0
        /\ mRes.matches[j].matchDetails.related = 1
        /\ 3 * Len(mRes.searchedSkills) = 6
        /\ mRes.matches[j].matchScore = 67
        /\ mRes.matches[j].matchingSkills = << <<"R","e","a","c","t">>, <<"E","x","p","r","e","s","s">> >>

\* that candidate has been matched against that query
C4_Witness ==
  /\ Matched
  /\ mSkills.s = ReactNode
  /\ \E j \in 1..Len(mRes.matches) : mRes.matches[j].skills = ReactExpressMongo

\* a string without a query term: only separators and white space
NoTerms(str) == \A i \in 1..Len(str) : str[i] \in {",", ";", "|", "\n"} \cup WhiteSpace
Blank(str)   == \A i \in 1..Len(str) : str[i] \in WhiteSpace

\* C5 as stated: an empty query (the empty string, a blank string, a string
\* without terms) is no error: the response is a success with no matches.
\* (A failure of the database is left aside.)
C5_EmptyQuerySucceeds ==
  mpc = "done" /\ IsString(mSkills) /\ NoTerms(mSkills.s) /\ mRes.status # 500 =>
    mRes.status = 200 /\ mRes.success /\ mRes.matches = <<>>

\* C5 as amended: an empty or blank query is answered 400; a query that is
\* not blank and yields no terms is never answered 400 and never yields a
\* match: the success response sent for it has an empty match list.
C5_BlankRejectedNoTermsEmpty ==
  mpc = "done" /\ IsString(mSkills) /\ NoTerms(mSkills.s) =>
    IF Blank(mSkills.s)
    THEN mRes.status = 400 /\ ~mRes.success
    ELSE /\ mRes.status \in {200, 500}
         /\ mRes.status = 200 =>
              /\ mRes.success
              /\ mRes.searchedSkills = <<>>
              /\ mRes.matches = <<>>
              /\ mRes.total = 0

\* a query of separators only was answered with a success over a table
\* that holds candidates
C5_Witness ==
  /\ Matched
  /\ NoTerms(mSkills.s)
  /\ ~Blank(mSkills.s)
  /\ mRes.totalCandidatesProcessed > 0

\* the table lists b under a
Listed(a, b) ==
  \E k \in 1..Len(relatedSkillsMap) :
    /\ relatedSkillsMap[k].key = a
    /\ \E i \in 1..Len(relatedSkillsMap[k].related) : relatedSkillsMap[k].related[i] = b

\* the query term and the candidate skill match: equal, one within the
\* other, or related by the table
TermMatches(term, skill) ==
  \/ term = skill
  \/ includes(term, skill) \/ includes(skill, term)
  \/ Listed(term, skill) \/ Listed(skill, term)

\* C6: a candidate with no matched skill (in particular one whose skill list
\* is empty) never appears in the matches.
C6_NoMatchNotReturned ==
  Matched =>
    \A j \in 1..Len(mRes.matches) :
      /\ mRes.matches[j].skills # <<>>
      /\ mRes.matches[j].matchDetails.exact + mRes.matches[j].matchDetails.partial
           + mRes.matches[j].matchDetails.related > 0
      /\ \E q \in 1..Len(mRes.searchedSkills), c \in 1..Len(mRes.matches[j].skills) :
           TermMatches(mRes.searchedSkills[q], trim(toLowerCase(mRes.matches[j].skills[c])))

\* a table of at most 25 rows, one of them with an empty skill list, was
\* matched: some row was returned and the row without skills was left out
C6_Witness ==
  /\ Matched
  /\ Len(mRows) <= 25
  /\ Len(mRes.matches) > 0
  /\ \E i \in 1..Len(mRows) :
       /\ mRows[i].skills = Arr(<<>>)
       /\ ~Returned(mRes.matches, mRows[i].id)

---------------------------------------------------------------------------
(* Properties of processSkills, checked under SpecNorm.                    *)

NormDone == npc # "input"
NormOut  == nOut.value.a

\* a string that starts with "[" and ends with "]" once trimmed
Bracketed(v) ==
  IsString(v) /\ startsWith(trim(v.s), "[") /\ endsWith(trim(v.s), "]")

\* C7: whatever the input (absent, array, JSON-array string, delimited
\* string, any other type), processSkills returns at most 20 entries, each a
\* trimmed string of 1 to 50 characters; none is the empty string.
C7_WellFormed ==
  NormDone =>
    /\ nOut.type = "return"
    /\ IsArray(nOut.value)
    /\ Len(NormOut) <= 20
    /\ \A i \in 1..Len(NormOut) :
         /\ IsString(NormOut[i])
         /\ Len(NormOut[i].s) >= 1
         /\ Len(NormOut[i].s) <= 50
         /\ trim(NormOut[i].s) = NormOut[i].s

\* an array of more than 20 entries, one of them longer than 50 characters,
\* has been cut to exactly 20
C7_Witness ==
  /\ npc = "once"
  /\ IsArray(nRaw)
  /\ Len(nRaw.a) > 20
  /\ \E i \in 1..Len(nRaw.a) : IsString(nRaw.a[i]) /\ Len(nRaw.a[i].s) > 50
  /\ Len(NormOut) = 20

\* C8: normalisation is idempotent: processSkills applied to its own result
\* returns the same entries in the same order.
C8_Idempotent == npc = "twice" => nOut2 = nOut

\* an array that normalisation changed has been normalised twice
C8_Witness ==
  /\ npc = "twice"
  /\ IsArray(nRaw)
  /\ nOut.value # nRaw
  /\ Len(NormOut) > 0

HasUpperCase(str) == toLowerCase(str) # str

\* C10 as stated: every entry processSkills returns is lowercase.
C10_AllLowercase ==
  NormDone /\ nOut.type = "return" =>
    \A i \in 1..Len(NormOut) : ~HasUpperCase(NormOut[i].s)

\* C10 as amended: processSkills keeps the letter case of its input.  Every
\* entry returned for an array is String(entry).trim() of an entry of that
\* array, and every entry returned for a delimited (not bracketed) string
\* stands verbatim in that string.
C10_CasePreserved ==
  NormDone /\ nOut.type = "return" =>
    /\ IsArray(nRaw) =>
         \A i \in 1..Len(NormOut) :
           \E k \in 1..Len(nRaw.a) : NormOut[i].s = trim(ToStringJS(nRaw.a[k]))
    /\ IsString(nRaw) /\ ~Bracketed(nRaw) =>
         \A i \in 1..Len(NormOut) : includes(nRaw.s, NormOut[i].s)

\* an entry with an upper-case letter has been returned for an array
C10_Witness ==
  /\ npc = "once"
  /\ IsArray(nRaw)
  /\ nOut.type = "return"
  /\ \E i \in 1..Len(NormOut) : HasUpperCase(NormOut[i].s)

\* the non-empty trimmed segments of a string between commas, semicolons,
\* pipes and newlines
Segments(str) ==
  LET parts == split(str, {",", ";", "|", "\n"})
      kept  == SelectSeq(parts, LAMBDA part : trim(part) # <<>>)
  IN  AsTuple([i \in 1..Len(kept) |-> trim(kept[i])])

\* C11 as stated: for a string that is no JSON, processSkills returns one
\* entry for every non-empty segment between commas, semicolons, pipes and
\* newlines.  (Strings of more than 20 segments or with a segment of more
\* than 50 characters are left aside.)
C11_SplitOnFourDelimiters ==
  NormDone /\ IsString(nRaw) /\ ~Bracketed(nRaw) /\ nOut.type = "return" =>
    LET segments == Segments(nRaw.s)
    IN  (Len(segments) <= 20 /\ \A i \in 1..Len(segments) : Len(segments[i]) <= 50) =>
          NormOut = [i \in 1..Len(segments) |-> Str(segments[i])]

---------------------------------------------------------------------------
(* Properties of getProfessionalCategories, checked under SpecCat.         *)

\* the request was answered with the category list
Categorized == cpc = "done" /\ cRes.status = 200

\* the rows the query reads: those with a title
Titled(rows) == SelectSeq(rows, LAMBDA row : row.title # Null /\ row.title # Str(<<>>))

RECURSIVE SumCounts(_)
SumCounts(list) == IF list = <<>> THEN 0 ELSE Head(list).count + SumCounts(Tail(list))

SameText(a, b) == a.title = b.title /\ a.bio = b.bio /\ a.skills = b.skills

\* C12: every processed candidate is counted in exactly one category: the
\* emitted counts add up to totalProfessionals, the number of candidates
\* processed; no category is emitted twice; candidates of the same text are
\* counted in the same category.
C12_CountsSumToTotal ==
  Categorized =>
    /\ cRes.totalProfessionals = Len(Titled(tRows))
    /\ SumCounts(cRes.categories) = cRes.totalProfessionals
    /\ \A i, j \in 1..Len(cRes.categories) :
         cRes.categories[i].name = cRes.categories[j].name => i = j
    /\ (\A i, j \in 1..Len(Titled(tRows)) : SameText(Titled(tRows)[i], Titled(tRows)[j]))
         => Len(cRes.categories) <= 1

\* three candidates were counted in two categories, one of them a candidate
\* whose text holds keywords of more than one category
C12_Witness ==
  /\ Categorized
  /\ cRes.totalProfessionals = 3
  /\ Len(cRes.categories) = 2
  /\ \E i \in 1..Len(tRows) :
       /\ includes(CombinedText(tRows[i]), <<"p","y","t","h","o","n">>)
       /\ includes(CombinedText(tRows[i]), <<"d","o","c","k","e","r">>)

\* C13: only categories of count > 0 are listed, "Others" is the last
\* element whatever its count, and the other categories stand in
\* non-increasing order of count.
C13_OthersLastCountsDescending ==
  Categorized =>
    /\ \A i \in 1..Len(cRes.categories) : cRes.categories[i].count > 0
    /\ \A i \in 1..Len(cRes.categories) :
         cRes.categories[i].name = "Others" => i = Len(cRes.categories)
    /\ \A i, j \in 1..Len(cRes.categories) :
         i < j /\ cRes.categories[j].name # "Others" =>
           cRes.categories[i].count >= cRes.categories[j].count

\* "Others" stands last with a count greater than that of the category
\* before it
C13_Witness ==
  /\ Categorized
  /\ Len(cRes.categories) = 2
  /\ cRes.categories[2].name = "Others"
  /\ cRes.categories[2].count > cRes.categories[1].count

\* the categories, other than "Others", with a keyword in the text
Matching(text) ==
  {k \in 1..Len(categories) :
     /\ categories[k].name # "Others"
     /\ \E i \in 1..Len(categories[k].keywords) : includes(text, categories[k].keywords[i])}

\* the first of them in the declared order, "Others" when there is none
FirstCategory(text) ==
  IF Matching(text) = {} THEN "Others" ELSE categories[SetMin(Matching(text))].name

FirstCategories(rows) == AsTuple([i \in 1..Len(rows) |-> FirstCategory(CombinedText(rows[i]))])

CountOf(list, name) ==
  IF \E i \in 1..Len(list) : list[i].name = name
  THEN list[CHOOSE i \in 1..Len(list) : list[i].name = name].count
  ELSE 0

\* every category is listed with the number of rows that it is first for
CountsAre(list, first) ==
  \A k \in 1..Len(categories) :
    CountOf(list, categories[k].name) =
      Cardinality({i \in 1..Len(first) : first[i] = categories[k].name})

FrontendExample(row) ==
  /\ row.title = Str(<<"F","r","o","n","t","e","n","d"," ","D","e","v","e","l","o","p","e","r">>)
  /\ row.skills = Arr(<< Str(<<"R","e","a","c","t">>), Str(<<"C","S","S">>) >>)

NoText(row) ==
  /\ row.title \in {Null, Str(<<>>)}
  /\ row.bio \in {Null, Str(<<>>)}
  /\ row.skills = Arr(<<>>)

\* C14 as stated: every candidate is counted in the first category of the
\* declared order that has a keyword in its lowercased text, in "Others"
\* when there is none; so is a candidate without title, bio and skills.
C14_FirstCategoryOrOthers ==
  Categorized => CountsAre(cRes.categories, FirstCategories(tRows))

\* C14 as amended: every candidate that has a title is counted in the first
\* category of the declared order that has a keyword in its lowercased
\* text, in "Others" when there is none; title "Frontend Developer" with
\* skills React, CSS is counted in "Frontend Developer"; a candidate
\* without a title is counted in no category.
C14_FirstCategoryOfTitled ==
  Categorized =>
    /\ CountsAre(cRes.categories, FirstCategories(Titled(tRows)))
    /\ (Len(Titled(tRows)) = 1 /\ FrontendExample(Titled(tRows)[1])) =>
         cRes.categories =
           << [name |-> "Frontend Developer", count |-> 1, icon |-> "Code"] >>
    /\ (\A i \in 1..Len(tRows) : NoText(tRows[i])) => cRes.categories = <<>>

\* a candidate whose text holds keywords of several categories, one whose
\* text holds none and one without title were classified
C14_Witness ==
  /\ Categorized
  /\ Len(tRows) = 3
  /\ \E i \in 1..Len(tRows) : Cardinality(Matching(CombinedText(tRows[i]))) > 1
  /\ \E i \in 1..Len(tRows) : tRows[i].title # Str(<<>>) /\ Matching(CombinedText(tRows[i])) = {}
  /\ \E i \in 1..Len(tRows) : NoText(tRows[i])

---------------------------------------------------------------------------
(* The order of the matchSkills result, checked under SpecMatch.           *)

\* every row the callback processed, as it scored it
ScoredCandidates(inputSkills, rows) ==
  AsTuple([i \in 1..Len(rows) |-> MatchCandidate(inputSkills, rows[i]).value])

\* a stands strictly before b in the order: matchScore descending, then
\* available first, then createdAt descending
RanksBefore(a, b) ==
  \/ a.matchScore > b.matchScore
  \/ /\ a.matchScore = b.matchScore
     /\ \/ a.availability = "available" /\ b.availability # "available"
        \/ /\ (a.availability = "available") <=> (b.availability = "available")
           /\ a.createdAt > b.createdAt

TopOfRanking(matches, scored) ==
  /\ Len(matches) <= 25
  /\ \A i, j \in 1..Len(matches) : i < j => ~RanksBefore(matches[j], matches[i])
  /\ \A j \in 1..Len(matches) :
       \E i \in 1..Len(scored) : scored[i] = matches[j] /\ scored[i].matchScore > 0
  /\ Len(matches) = IF Cardinality(Positive(scored)) < 25
                    THEN Cardinality(Positive(scored)) ELSE 25
  /\ \A i \in Positive(scored) :
       ~Returned(matches, scored[i].id) =>
         \A j \in 1..Len(matches) : ~RanksBefore(scored[i], matches[j])

\* C15: the matches are the first 25 of the candidates of matchScore > 0 in
\* the order matchScore descending, available first, createdAt descending:
\* at most 25 entries, in that order, and no omitted candidate of
\* matchScore > 0 ranks strictly before a returned one.
C15_TopOfRanking ==
  Matched =>
    TopOfRanking(mRes.matches, ScoredCandidates(mRes.searchedSkills, SelectCandidates(mRows)))

\* 25 matches were returned and a candidate of matchScore > 0 was omitted;
\* among the matches a tie on matchScore was decided by availability and
\* another by createdAt
C15_Witness ==
  /\ Matched
  /\ Len(mRes.matches) = 25
  /\ mRes.totalCandidatesProcessed > 25
  /\ Cardinality({mRes.matches[j].matchScore : j \in 1..25}) > 1
  /\ \E j \in 1..24 :
       /\ mRes.matches[j].matchScore = mRes.matches[j + 1].matchScore
       /\ mRes.matches[j].availability = "available"
       /\ mRes.matches[j + 1].availability # "available"
  /\ \E j \in 1..24 :
       /\ mRes.matches[j].matchScore = mRes.matches[j + 1].matchScore
       /\ mRes.matches[j].availability = mRes.matches[j + 1].availability
       /\ mRes.matches[j].createdAt > mRes.matches[j + 1].createdAt

---------------------------------------------------------------------------
(* Properties of searchJobSeekers, checked under SpecSearch.               *)

\* the request was answered with the candidate list
Searched == spc = "done" /\ sRes.status = 200

\* the request carries a text query that is not blank
TextQuery == IsString(sReq.jobTitle) /\ ~Blank(sReq.jobTitle.s)

\* a stands strictly before b in the order available first, then createdAt
\* descending
ListedBefore(a, b) ==
  \/ a.availability = "available" /\ b.availability # "available"
  \/ /\ (a.availability = "available") <=> (b.availability = "available")
     /\ a.createdAt > b.createdAt

\* C16: at most 50 candidates are returned; with a text query that is not
\* blank they stand in non-increasing order of relevanceScore (a match in
\* the title alone, 3, before a match in the bio alone, 2); without one they
\* stand available first, then createdAt descending.
C16_CappedAndOrdered ==
  Searched =>
    /\ Len(sRes.candidates) <= 50
    /\ sRes.total = Len(sRes.candidates)
    /\ TextQuery =>
         \A i, j \in 1..Len(sRes.candidates) :
           i < j => sRes.candidates[i].relevanceScore >= sRes.candidates[j].relevanceScore
    /\ ~TextQuery =>
         \A i, j \in 1..Len(sRes.candidates) :
           i < j => ~ListedBefore(sRes.candidates[j], sRes.candidates[i])

\* 50 candidates of a table of more were returned for a text query, some
\* of relevance 3 and some of relevance 2, and the order of relevance moved
\* a busy candidate before an available one
C16_Witness ==
  /\ Searched
  /\ TextQuery
  /\ Len(tRows) > 50
  /\ Len(sRes.candidates) = 50
  /\ \E i, j \in 1..50 :
       /\ i < j
       /\ sRes.candidates[i].relevanceScore = 3
       /\ sRes.candidates[j].relevanceScore = 2
  /\ \E i, j \in 1..50 :
       i < j /\ ListedBefore(sRes.candidates[j], sRes.candidates[i])

\* the text holds the query, letter case aside
Holds(text, query) == IsString(text) /\ includes(toLowerCase(text.s), toLowerCase(query))

\* 3 for the title, 2 for the bio, 2 for every skill that holds the query
Expected(candidate, query) ==
  (IF Holds(candidate.title, query) THEN 3 ELSE 0)
  + (IF Holds(candidate.bio, query) THEN 2 ELSE 0)
  + 2 * Cardinality({k \in 1..Len(candidate.skills) : Holds(candidate.skills[k], query)})

\* C17: with a text query q the relevanceScore of every returned candidate
\* is 3 if q is within the title, plus 2 if q is within the bio, plus 2 for
\* every skill that q is within, letter case aside; without a text query it
\* is 0.
C17_RelevanceFormula ==
  Searched =>
    \A i \in 1..Len(sRes.candidates) :
      sRes.candidates[i].relevanceScore =
        IF TextQuery THEN Expected(sRes.candidates[i], sReq.jobTitle.s) ELSE 0

\* candidates of relevance 2 (bio), 3 (title) and 5 (title and a skill)
\* were returned for a text query
C17_Witness ==
  /\ Searched
  /\ TextQuery
  /\ \E i \in 1..Len(sRes.candidates) :
       /\ sRes.candidates[i].relevanceScore = 5
       /\ Holds(sRes.candidates[i].title, sReq.jobTitle.s)
       /\ \E k \in 1..Len(sRes.candidates[i].skills) :
            Holds(sRes.candidates[i].skills[k], sReq.jobTitle.s)
  /\ \E i \in 1..Len(sRes.candidates) : sRes.candidates[i].relevanceScore = 3
  /\ \E i \in 1..Len(sRes.candidates) :
       /\ sRes.candidates[i].relevanceScore = 2
       /\ Holds(sRes.candidates[i].bio, sReq.jobTitle.s)

---------------------------------------------------------------------------
(* Properties of areRelatedSkills, checked under SpecRel.                  *)

\* the table lists b under a, letter case aside
ListedUnder(a, b) == Listed(toLowerCase(a), toLowerCase(b))

\* C18 as stated: for all skills a and b, areRelatedSkills(a, b) and
\* areRelatedSkills(b, a) return the same boolean, and that is true whenever
\* the table lists b under a or a under b, whatever the letter case.
C18_SymmetricLookup ==
  rel.pc = "both" =>
    /\ rel.forward.type = "return"
    /\ rel.backward.type = "return"
    /\ rel.forward.value = rel.backward.value
    /\ (ListedUnder(rel.skill1, rel.skill2) \/ ListedUnder(rel.skill2, rel.skill1)) =>
         rel.forward.value

---------------------------------------------------------------------------
(* Malformed stored skills in matchSkills, checked under SpecMatch.        *)

\* a stored skills value that is no array of strings: a text that is no
\* JSON, a JSON value that is no array, an array with an entry that is no
\* string
Malformed(stored) ==
  \/ IsString(stored) /\ JSONparse(stored.s).type = "throw"
  \/ IsString(stored) /\ JSONparse(stored.s).type = "return" /\ ~IsArray(JSONparse(stored.s).value)
  \/ IsArray(stored) /\ \E i \in 1..Len(stored.a) : ~IsString(stored.a[i])

\* no query term is the name of a member of Object.prototype
PlainTerms(skills) ==
  \A q \in 1..Len(ParseInputSkills(skills)) : ParseInputSkills(skills)[q] \notin InheritedKeys

\* C19 as stated: malformed stored skills are recovered locally: once the
\* rows of the query have been processed the request has its success
\* response, and the skills of every candidate in it are a clean list of
\* strings; no exception propagates.
C19_MalformedSkillsRecovered ==
  ( /\ mpc \in {"done", "crashed"}
    /\ mRes.status \notin {400, 500}
    /\ PlainTerms(mSkills.s)
    /\ \E i \in 1..Len(mRows) : Malformed(mRows[i].skills) )
  => /\ mpc = "done"
     /\ mRes.status = 200
     /\ mRes.success
     /\ \A j \in 1..Len(mRes.matches) :
          \A k \in 1..Len(mRes.matches[j].skills) : Len(mRes.matches[j].skills[k]) > 0

---------------------------------------------------------------------------
(* Requests in parallel, checked under SpecServer.                         *)

\* the responses the request can get when it is the only one: that of its
\* handler, that of a failed query, those of its callback
AloneResponses(request, rows) ==
  IF Handle(request).pc = "done" THEN {Handle(request).res}
  ELSE {DbErrorResponse(request)} \cup {outcome.res : outcome \in CallbackOutcomes(request, rows)}

\* the request will get no other response than the one it has
Settled(i) == pReqs[i].pc \in {"done", "crashed"} \/ ~pAlive

\* C20 as stated: requests in parallel do not interfere: whatever the order
\* of their database callbacks, every request ends with a response that it
\* can get when it runs alone on the same rows.
C20_NoInterference ==
  \A i \in 1..Len(pReqs) :
    Settled(i) => pReqs[i].res \in AloneResponses(pReqs[i], tRows)

---------------------------------------------------------------------------
(* The buckets, the score and the matching skills of a match, checked      *)
(* under SpecMatch.                                                        *)

\* the (query term, candidate skill) pairs of a match
Pairs(match, terms) == (1..Len(terms)) \X (1..Len(match.skills))

\* the candidate skill as it is compared: lower case, trimmed
Compared(match, c) == trim(toLowerCase(match.skills[c]))

IsExact(term, skill)   == term = skill
IsPartial(term, skill) == includes(term, skill) \/ includes(skill, term)
IsRelated(term, skill) == Listed(term, skill) \/ Listed(skill, term)

ExactPairs(match, terms) ==
  {p \in Pairs(match, terms) : IsExact(terms[p[1]], Compared(match, p[2]))}

PartialPairs(match, terms) ==
  {p \in Pairs(match, terms) :
     /\ ~IsExact(terms[p[1]], Compared(match, p[2]))
     /\ IsPartial(terms[p[1]], Compared(match, p[2]))}

RelatedPairs(match, terms) ==
  {p \in Pairs(match, terms) :
     /\ ~IsExact(terms[p[1]], Compared(match, p[2]))
     /\ ~IsPartial(terms[p[1]], Compared(match, p[2]))
     /\ IsRelated(terms[p[1]], Compared(match, p[2]))}

BucketsOfPairs(match, terms) ==
  /\ match.matchDetails.exact = Cardinality(ExactPairs(match, terms))
  /\ match.matchDetails.partial = Cardinality(PartialPairs(match, terms))
  /\ match.matchDetails.related = Cardinality(RelatedPairs(match, terms))
  /\ match.matchDetails.exact + match.matchDetails.partial + match.matchDetails.related
       <= Len(terms) * Len(match.skills)

\* C21: every (query term, candidate skill) pair is counted in at most one
\* bucket, exact (equal, letter case aside) before partial (one contains the
\* other) before related (table lookup); every such pair adds one to its
\* bucket, so that exact + partial + related is at most terms x skills and a
\* skill matching several terms is counted once for each of them.
C21_OneBucketPerPair ==
  Matched => \A j \in 1..Len(mRes.matches) : BucketsOfPairs(mRes.matches[j], mRes.searchedSkills)

\* a match one of whose skills is counted for two query terms, in two
\* different buckets or twice in the same one
C21_Witness ==
  /\ Matched
  /\ \E j \in 1..Len(mRes.matches) :
       /\ mRes.matches[j].matchDetails.exact > 0
       /\ mRes.matches[j].matchDetails.partial > 0
       /\ \E c \in 1..Len(mRes.matches[j].skills), q1, q2 \in 1..Len(mRes.searchedSkills) :
            /\ q1 # q2
            /\ TermMatches(mRes.searchedSkills[q1], Compared(mRes.matches[j], c))
            /\ TermMatches(mRes.searchedSkills[q2], Compared(mRes.matches[j], c))

\* n is x / y rounded to the nearest integer, a half rounded up
IsRounded(n, x, y) == 2 * y * n <= 2 * x + y /\ 2 * x + y < 2 * y * (n + 1)

RawScore(match, terms) ==
  3 * Cardinality(ExactPairs(match, terms)) + 2 * Cardinality(PartialPairs(match, terms))
    + 1 * Cardinality(RelatedPairs(match, terms))

ScoreOfCounts(match, terms) ==
  /\ match.matchDetails.exact = Cardinality(ExactPairs(match, terms))
  /\ match.matchDetails.partial = Cardinality(PartialPairs(match, terms))
  /\ match.matchDetails.related = Cardinality(RelatedPairs(match, terms))
  /\ IF Len(terms) > 0
     THEN IsRounded(match.matchScore, 100 * RawScore(match, terms), 3 * Len(terms))
     ELSE match.matchScore = 0

AllScoresOfCounts(scored, terms) ==
  \A i \in 1..Len(scored) : ScoreOfCounts(scored[i], terms)

\* C22: for every candidate the callback scores, matchScore is
\* round(100 x (3 x exact + 2 x partial + 1 x related) / (3 x terms)) when the
\* query has a term and 0 when it has none, and matchDetails reports those
\* three counts.
C22_ScoreFormula ==
  Matched =>
    AllScoresOfCounts(ScoredCandidates(mRes.searchedSkills, SelectCandidates(mRows)),
                      mRes.searchedSkills)

\* a match with an exact and a related pair whose quotient is no integer
C22_Witness ==
  /\ Matched
  /\ \E j \in 1..Len(mRes.matches) :
       /\ mRes.matches[j].matchDetails.exact > 0
       /\ mRes.matches[j].matchDetails.related > 0
       /\ (100 * RawScore(mRes.matches[j], mRes.searchedSkills))
            % (3 * Len(mRes.searchedSkills)) # 0

\* the candidate skill matched a query term
MatchedATerm(match, terms, c) ==
  \E q \in 1..Len(terms) : TermMatches(terms[q], Compared(match, c))

MatchingSkillsOf(match, terms) ==
  /\ \A a, b \in 1..Len(match.matchingSkills) :
       a # b => match.matchingSkills[a] # match.matchingSkills[b]
  /\ \A a \in 1..Len(match.matchingSkills) :
       \E c \in 1..Len(match.skills) : match.skills[c] = match.matchingSkills[a]
  /\ \A c \in 1..Len(match.skills) :
       (\E a \in 1..Len(match.matchingSkills) : match.matchingSkills[a] = match.skills[c])
         <=> MatchedATerm(match, terms, c)
  /\ match.matchDetails.total = Len(match.matchingSkills)

\* C23: matchingSkills holds no string twice, each of its elements is a
\* skill of the candidate in its original letter case, a skill of the
\* candidate is in it if and only if it matched a query term, and
\* matchDetails.total is its length.
C23_MatchingSkills ==
  Matched => \A j \in 1..Len(mRes.matches) : MatchingSkillsOf(mRes.matches[j], mRes.searchedSkills)

\* a match with more counted pairs than matching skills, with a skill that
\* matched no term and a matching skill that has an upper-case letter
C23_Witness ==
  /\ Matched
  /\ \E j \in 1..Len(mRes.matches) :
       /\ mRes.matches[j].matchDetails.exact + mRes.matches[j].matchDetails.partial
            + mRes.matches[j].matchDetails.related > mRes.matches[j].matchDetails.total
       /\ \E c \in 1..Len(mRes.matches[j].skills) :
            ~MatchedATerm(mRes.matches[j], mRes.searchedSkills, c)
       /\ \E a \in 1..Len(mRes.matches[j].matchingSkills) :
            toLowerCase(mRes.matches[j].matchingSkills[a]) # mRes.matches[j].matchingSkills[a]

---------------------------------------------------------------------------
(* The salary bracket, the limit and the relevance of searchJobSeekers,    *)
(* checked under SpecSearch.                                               *)

BracketNames == { <<"e","n","t","r","y">>, <<"m","i","d">>, <<"s","e","n","i","o","r">>,
                  <<"e","x","p","e","r","t">> }

\* the number strings of a bracket
BracketNumbers(name) ==
  IF name = <<"e","n","t","r","y">> THEN {<<"2","0">>, <<"3","0">>, <<"4","0">>}
  ELSE IF name = <<"m","i","d">> THEN {<<"5","0">>, <<"6","0">>, <<"7","0">>}
  ELSE IF name = <<"s","e","n","i","o","r">> THEN {<<"7","0">>, <<"8","0">>, <<"9","0">>, <<"1","0","0">>}
  ELSE {<<"1","0","0">>, <<"1","2","0">>, <<"1","5","0">>}

\* the request names a salary bracket
NamesBracket(body) == IsString(body.salaryRange) /\ body.salaryRange.s \in BracketNames

\* the salary text holds one of the numbers of the bracket the request names
InBracket(expectedSalary, body) ==
  /\ IsString(expectedSalary)
  /\ \E number \in BracketNumbers(body.salaryRange.s) : includes(expectedSalary.s, number)

\* the request without its salary bracket
WithoutSalary(body) == [body EXCEPT !.salaryRange = Undefined]

PassesSalary(row, body) == NamesBracket(body) => InBracket(row.expectedSalary, body)

\* the rows that pass the other filters and the substring test of the
\* bracket are the rows returned, as far as the limit of 50 lets them in
SalaryBySubstring(rows, body, candidates, caseInsensitive) ==
  /\ \A i \in 1..Len(candidates) :
       \E k \in 1..Len(rows) :
         /\ rows[k].id = candidates[i].id
         /\ PassesFilters(rows[k], WithoutSalary(body), caseInsensitive)
         /\ PassesSalary(rows[k], body)
  /\ \A k \in 1..Len(rows) :
       PassesFilters(rows[k], WithoutSalary(body), caseInsensitive) /\ PassesSalary(rows[k], body)
         => \/ Len(candidates) = 50
            \/ \E i \in 1..Len(candidates) : candidates[i].id = rows[k].id

\* C24: the salary filter is a substring test: with salaryRange entry, mid,
\* senior or expert a candidate passes if and only if its expectedSalary
\* holds one of the numbers of that bracket (entry 20/30/40, mid 50/60/70,
\* senior 70/80/90/100, expert 100/120/150), so that "170k" passes mid; any
\* other salaryRange filters nothing.
C24_SalaryBySubstring ==
  Searched =>
    /\ \A i \in 1..Len(sRes.candidates) : PassesSalary(sRes.candidates[i], sReq)
    /\ \E caseInsensitive \in BOOLEAN :
         SalaryBySubstring(tRows, sReq, sRes.candidates, caseInsensitive)

\* a search of the mid bracket returned a candidate asking "170k" and left
\* out one asking "100k"
C24_Witness ==
  /\ Searched
  /\ sReq.salaryRange = Str(<<"m","i","d">>)
  /\ Len(sRes.candidates) < 50
  /\ \E i \in 1..Len(sRes.candidates) :
       sRes.candidates[i].expectedSalary = Str(<<"1","7","0","k">>)
  /\ \E k \in 1..Len(tRows) :
       /\ tRows[k].expectedSalary = Str(<<"1","0","0","k">>)
       /\ \A i \in 1..Len(sRes.candidates) : sRes.candidates[i].id # tRows[k].id

\* the rows that pass the filters of the request
Passing(rows, body, caseInsensitive) ==
  {k \in 1..Len(rows) : PassesFilters(rows[k], body, caseInsensitive)}

ReturnedCandidate(candidates, id) == \E i \in 1..Len(candidates) : candidates[i].id = id

\* 50 of the passing rows are returned, none of the others stands before a
\* returned one in the order available first, createdAt descending, and the
\* returned ones stand by relevanceScore, equal scores in that order
FirstFiftyByDate(rows, body, candidates, caseInsensitive) ==
  /\ Len(candidates) = 50
  /\ \A i, j \in 1..50 : i # j => candidates[i].id # candidates[j].id
  /\ \A i \in 1..50 :
       \E k \in Passing(rows, body, caseInsensitive) : rows[k].id = candidates[i].id
  /\ \A k \in Passing(rows, body, caseInsensitive) :
       ~ReturnedCandidate(candidates, rows[k].id) =>
         \A i \in 1..50 : ~ListedBefore(rows[k], candidates[i])
  /\ \A i, j \in 1..50 :
       i < j =>
         /\ candidates[i].relevanceScore >= candidates[j].relevanceScore
         /\ candidates[i].relevanceScore = candidates[j].relevanceScore
              => ~ListedBefore(candidates[j], candidates[i])

\* the result is what the limit of 50 leaves of the passing rows
LimitedByDate(rows, body, candidates, caseInsensitive) ==
  IF Cardinality(Passing(rows, body, caseInsensitive)) > 50
  THEN FirstFiftyByDate(rows, body, candidates, caseInsensitive)
  ELSE /\ Len(candidates) = Cardinality(Passing(rows, body, caseInsensitive))
       /\ \A k \in Passing(rows, body, caseInsensitive) : ReturnedCandidate(candidates, rows[k].id)

\* C25: with a text query and more than 50 candidates passing the filters,
\* the candidates returned are the first 50 of them in the order available
\* first, createdAt descending, sorted again by relevanceScore: relevance
\* decides the order of the result and not who is in it.  (With at most 50
\* passing candidates all of them are returned.)
C25_LimitBeforeRelevance ==
  Searched /\ TextQuery =>
    \E caseInsensitive \in BOOLEAN : LimitedByDate(tRows, sReq, sRes.candidates, caseInsensitive)

\* more than 50 rows passed a text query, 50 were returned, and a row left
\* out of the result is more relevant than a candidate in it
C25_Witness ==
  /\ Searched
  /\ TextQuery
  /\ Len(sRes.candidates) = 50
  /\ \E caseInsensitive \in BOOLEAN :
       /\ Cardinality(Passing(tRows, sReq, caseInsensitive)) > 50
       /\ \E k \in Passing(tRows, sReq, caseInsensitive), i \in 1..50 :
            /\ ~ReturnedCandidate(sRes.candidates, tRows[k].id)
            /\ ParseCandidate(tRows[k], sReq.jobTitle).value.relevanceScore
                 > sRes.candidates[i].relevanceScore

\* C26 as stated: with a text query that is not blank (white space around
\* it or not) every returned candidate has a relevanceScore of at least 2.
C26_RelevanceAtLeastTwo ==
  Searched /\ TextQuery =>
    \A i \in 1..Len(sRes.candidates) : sRes.candidates[i].relevanceScore >= 2

---------------------------------------------------------------------------
(* The round trip of stored skills, checked under SpecStore.               *)

\* C30: for every input x the stored text JSON.stringify(processSkills(x))
\* is read back by safeJsonParse as processSkills(x), and processSkills of
\* that stored text is processSkills(x) again.
C30_StoredRoundTrip ==
  /\ store.pc \in {"read", "again"} => store.read = store.skills
  /\ store.pc = "again" => store.again = Return(store.skills)

\* a list that normalisation changed, with an entry that JSON escapes, was
\* stored as text, read back from the text and saved again
C30_Witness ==
  /\ store.pc = "again"
  /\ store.raw # store.skills
  /\ IsString(store.column)
  /\ Len(store.skills.a) > 1
  /\ \E i \in 1..Len(store.skills.a) :
       \E k \in 1..Len(store.skills.a[i].s) : store.skills.a[i].s[k] \in {"\"", "\\"}

---------------------------------------------------------------------------
(* Registration with requests interleaved, checked under SpecRegister.     *)

\* the users row and the profile row of the registration are committed
RowsCommitted(call) ==
  /\ \E u \in dbase.cUsers : u.id = call.userId
  /\ \E p \in dbase.cProfiles : p.userId = call.userId

\* no users row of the registration is in the table
NoRowOfItsOwn(call) ==
  call.userId # 0 => ~\E u \in dbase.users \cup dbase.cUsers : u.id = call.userId

RegistrationSettled ==
  \A i \in 1..Len(calls) :
    calls[i].kind = "register" /\ calls[i].pc = "done" =>
      /\ calls[i].res.status = 201 => RowsCommitted(calls[i])
      /\ calls[i].res.status \in {409, 500} => NoRowOfItsOwn(calls[i])

\* the connection runs the ROLLBACK of request i
RollsBack(i) ==
  /\ dbase.queue # <<>>
  /\ Head(dbase.queue) = [call |-> i, stmt |-> "rollback"]
  /\ dbase'.queue = Tail(dbase.queue)

\* the rows the step takes out of the tables were written by request i
UndoesOnlyItsOwn(i) ==
  /\ \A u \in dbase.users \ dbase'.users : u.by = i
  /\ \A p \in dbase.profiles \ dbase'.profiles : p.by = i

\* C27 as stated: registration is atomic for every request, however the
\* registerUser and updateUserProfile requests interleave on the one
\* connection: a request answered 201 has its users row and its profile row
\* committed, a request that failed (409, database error) leaves no users
\* row of its own, and its rollback undoes no row written by another
\* request.
C27_AtomicRegistration ==
  /\ []RegistrationSettled
  /\ [][\A i \in 1..Len(calls) : RollsBack(i) => UndoesOnlyItsOwn(i)]_vars

---------------------------------------------------------------------------
(* Reset tokens and the answers of forgotPassword, checked under           *)
(* SpecReset.                                                              *)

\* the resetPassword requests answered with success for the token
ResetsWith(t) ==
  {i \in 1..Len(calls) :
     calls[i].kind = "reset" /\ calls[i].token = t /\ calls[i].pc = "done" /\ calls[i].res.status = 200}

\* C28 as stated: a reset token authorises at most one successful password
\* change: of the resetPassword requests with a token, later or processed
\* at the same time, no more succeed than forgotPassword has issued that
\* value; the others are rejected.
C28_TokenUsedOnce ==
  \A t \in Tokens : Cardinality(ResetsWith(t)) <= dbase.issued[t]

\* forgotPassword has answered the request for a syntactically valid email
ForgotAnswered(i) ==
  calls[i].kind = "forgot" /\ calls[i].valid /\ calls[i].pc = "done"

\* C29 as stated: forgotPassword answers a valid email that has an account
\* and a valid email that has none with the same status and the same body.
C29_SameAnswer ==
  \A i, j \in 1..Len(calls) :
    /\ ForgotAnswered(i) /\ calls[i].found = "yes"
    /\ ForgotAnswered(j) /\ calls[j].found = "no"
    => calls[i].res = calls[j].res

===========================================================================
